---- MODULE Spec2Model ----
(***************************************************************************)
(* Battery digital twin: the orchestrator (BatteryDigitalTwin), the        *)
(* OCV/ECM provider (DFNInterface), the SOC filter (EKFSoCEstimator) and   *)
(* the SOH/RUL estimator (SOHEstimator).                                   *)
(*                                                                         *)
(* Fixed-point units used for the program's floats:                        *)
(*   soc          1e-4          (10000 = 1.0)                              *)
(*   voltage      1e-4 V        (37200 = 3.72 V)                           *)
(*   current      mA            (the unit step() receives)                 *)
(*   resistance   1e-4 Ohm      (620 = 0.062 Ohm)                          *)
(*   capacitance  F                                                        *)
(*   covariance   1e-7          (P, Q_noise, R_noise)                      *)
(*   percentages  1e-2 %        (10000 = 100.0 %)                          *)
(*   time         s, time.time() = Epoch + clock                           *)
(* Divisions round to nearest (RoundDiv), where the program computes in    *)
(* double precision.                                                       *)
(***************************************************************************)
EXTENDS Integers, Sequences, FiniteSets, TLC

(***************************************************************************)
(* Bounds of the model.                                                    *)
(***************************************************************************)
\* number of step() calls one caller may start
MaxSteps == 6
\* number of step() calls started before a high-fidelity check is due
MaxRaceSteps == 2
\* number of background high-fidelity checks that may be spawned
MaxBg == 2
\* largest value of the model clock (seconds after Epoch)
MaxTime == 2
\* time.time() at construction of the twin
Epoch == 1000

(***************************************************************************)
(* Arithmetic helpers.                                                     *)
(***************************************************************************)
Abs(x) == IF x < 0 THEN -x ELSE x

Min(a, b) == IF a < b THEN a ELSE b

Max(a, b) == IF a > b THEN a ELSE b

\* np.clip(x, lo, hi)
Clip(x, lo, hi) == IF x < lo THEN lo ELSE IF x > hi THEN hi ELSE x

\* a / b rounded to the nearest integer (b > 0), halves away from -infinity
RoundDiv(a, b) == (2 * a + b) \div (2 * b)

\* a * x / 10000 rounded to the nearest integer, for 0 <= a <= 10000 and x
\* of any size: the multiple of 10000 in x is scaled exactly
ScaleBy(a, x) == (x \div 10000) * a + RoundDiv((x % 10000) * a, 10000)

\* floor of the square root of n (0 for n <= 0)
RECURSIVE SqrtBits(_, _, _)
SqrtBits(n, r, b) ==
    IF b = 0 THEN r
    ELSE IF (r + b) * (r + b) <= n THEN SqrtBits(n, r + b, b \div 2)
         ELSE SqrtBits(n, r, b \div 2)

ISqrt(n) == IF n <= 0 THEN 0 ELSE SqrtBits(n, 0, 32768)

(***************************************************************************)
(* OCV tables.  _FALLBACK_SOC / _FALLBACK_OCV are the literature table of  *)
(* the provider; GenSoc / GenOcv stand for a table PyBaMM generated (and   *)
(* that the cache file holds): its content is an input of the program.     *)
(***************************************************************************)
FALLBACK_SOC ==
    << 0, 500, 1000, 1500, 2000, 2500, 3000, 3500, 4000, 4500, 5000,
       5500, 6000, 6500, 7000, 7500, 8000, 8500, 9000, 9500, 10000 >>

FALLBACK_OCV ==
    << 30000, 32700, 34900, 35500, 35900, 36200, 36600, 36900, 37200,
       37400, 37600, 37800, 38000, 38300, 38600, 38900, 39300, 39700,
       40200, 41000, 42000 >>

GenSoc == << 0, 2500, 5000, 7500, 10000 >>

GenOcv == << 32000, 35500, 37000, 38500, 41500 >>

\* literature ECM values (the provider's defaults)
LitEcm == [R0 |-> 620, R1 |-> 350, C1 |-> 2500]

\* ECM values a pulse simulation extracted (R1 * C1 = 100 s by construction)
GenEcm == [R0 |-> 500, R1 |-> 400, C1 |-> 2500]

\* np.interp(x, xp, fp) with the result in fp's unit times `fine`
RECURSIVE InterpFrom(_, _, _, _, _)
InterpFrom(x, xp, fp, i, fine) ==
    IF i >= Len(xp) THEN fp[Len(xp)] * fine
    ELSE IF x <= xp[i + 1]
         THEN IF xp[i + 1] = xp[i] THEN fp[i] * fine
              ELSE fp[i] * fine
                   + RoundDiv((x - xp[i]) * (fp[i + 1] - fp[i]) * fine,
                              xp[i + 1] - xp[i])
         ELSE InterpFrom(x, xp, fp, i + 1, fine)

Interp(x, xp, fp, fine) ==
    IF x <= xp[1] THEN fp[1] * fine
    ELSE IF x >= xp[Len(xp)] THEN fp[Len(xp)] * fine
    ELSE InterpFrom(x, xp, fp, 1, fine)

\* _get_ocv_arrays on the table (soc_tab, ocv_tab) the provider holds
GetOcvArrays(soc_tab, ocv_tab) ==
    IF soc_tab # << >> THEN << soc_tab, ocv_tab >>
    ELSE << FALLBACK_SOC, FALLBACK_OCV >>

\* ocv_from_soc, result in 1e-4 V / fine
OcvFromSocFine(tab, soc, temperature_c, fine) ==
    Interp(Clip(soc, 0, 10000), tab[1], tab[2], fine)
        - 8 * fine * (temperature_c - 25)

OcvFromSoc(tab, soc, temperature_c) == OcvFromSocFine(tab, soc, temperature_c, 1)

\* soc_from_ocv without the temperature correction of line 134
SocFromOcv_NoTemp(tab, ocv, temperature_c) ==
    Clip(Interp(ocv, tab[2], tab[1], 1), 0, 10000)

\* soc_from_ocv
SocFromOcv(tab, ocv, temperature_c) ==
    Clip(Interp(ocv + 8 * (temperature_c - 25), tab[2], tab[1], 1), 0, 10000)

\* docv_dsoc in 1e-2 V per unit soc: delta = 1e-4 is one soc unit, the two
\* OCV values are taken in 1e-6 V
DocvDsoc(tab, soc, temperature_c) ==
    LET hi == OcvFromSocFine(tab, Min(soc + 1, 10000), temperature_c, 100)
        lo == OcvFromSocFine(tab, Max(soc - 1, 0), temperature_c, 100)
    IN  RoundDiv(hi - lo, 2)

(***************************************************************************)
(* EKFSoCEstimator.                                                        *)
(***************************************************************************)
\* cell_capacity_ah of the twin, handed to both estimators
CellCapacityAh == 2

\* capacity in ampere-seconds: capacity_ah * 3600.0
Q_As == CellCapacityAh * 3600

\* coulombic efficiency eta = 0.98, in percent
Eta == 98

\* process noise Q_noise = diag(1e-5, 1e-6)
Q_noise == << 100, 0, 0, 10 >>

\* measurement noise R_noise = 0.005 ** 2
R_noise == 250

\* exp(-x) for x >= 0, x and the result in 1e-4
RECURSIVE ExpSeries(_, _, _, _)
ExpSeries(x, n, term, acc) ==
    IF term = 0 \/ n > 16 THEN acc
    ELSE LET t == RoundDiv(term * x, 10000 * n)
         IN  ExpSeries(x, n + 1, t, IF n % 2 = 1 THEN acc - t ELSE acc + t)

RECURSIVE ExpNeg(_)
ExpNeg(x) ==
    IF x > 10000
    THEN LET h == ExpNeg(x \div 2) IN RoundDiv(h * h, 10000)
    ELSE ExpSeries(x, 1, 10000, 10000)

\* EKFSoCEstimator.__init__; id tells one instance from another
EKFSoCEstimator(id, R0, R1, C1, temp_c) ==
    [ id |-> id, R0 |-> R0, R1 |-> R1, C1 |-> C1, tau1 |-> R1 * C1, temp_c |-> temp_c,
      x |-> << 9000, 0 >>, P |-> << 100000, 0, 0, 10000 >>,
      initialized |-> FALSE ]

\* initialize_from_voltage
InitializeFromVoltage(e, tab, v_terminal, temp_c) ==
    [ e EXCEPT !.temp_c = temp_c,
               !.x = << SocFromOcv(tab, v_terminal, temp_c), 0 >>,
               !.P = << 50000, 0, 0, 10000 >>,
               !.initialized = TRUE ]

\* update keeping the ECM values the filter was made with
EkfPredict_StaleEcm(e, tab, ecm, v_measured, current_ma, dt, temp_c) ==
    LET e0 == [ e EXCEPT !.temp_c = temp_c ]
        e1 == IF ~e0.initialized
              THEN InitializeFromVoltage(e0, tab, v_measured, temp_c)
              ELSE e0
        e2 == [ e1 EXCEPT !.tau1 = Max(e1.R1 * e1.C1, 10000) ]
        alpha == ExpNeg(RoundDiv(dt * 100000000, e2.tau1))
        soc_pred == Clip(e2.x[1] - RoundDiv(Eta * current_ma * dt, 10 * Q_As),
                         0, 10000)
        v_rc_pred == ScaleBy(alpha, e2.x[2])
                     + RoundDiv(RoundDiv(e2.R1 * (10000 - alpha), 100)
                                * current_ma, 100000)
        P_pred == << e2.P[1] + Q_noise[1],
                     RoundDiv(alpha * e2.P[2], 10000),
                     RoundDiv(alpha * e2.P[3], 10000),
                     RoundDiv(alpha * RoundDiv(alpha * e2.P[4], 10000), 10000)
                         + Q_noise[4] >>
    IN  [ ekf |-> e2, soc_pred |-> soc_pred, v_rc_pred |-> v_rc_pred,
          P_pred |-> P_pred ]

\* update inverting the OCV curve on every call
EkfPredict_Rebootstrap(e, tab, ecm, v_measured, current_ma, dt, temp_c) ==
    LET e0 == [ e EXCEPT !.temp_c = temp_c ]
        e1 == InitializeFromVoltage(e0, tab, v_measured, temp_c)
        e2 == [ e1 EXCEPT !.R0 = ecm.R0, !.R1 = ecm.R1, !.C1 = ecm.C1,
                          !.tau1 = Max(ecm.R1 * ecm.C1, 10000) ]
        alpha == ExpNeg(RoundDiv(dt * 100000000, e2.tau1))
        soc_pred == Clip(e2.x[1] - RoundDiv(Eta * current_ma * dt, 10 * Q_As),
                         0, 10000)
        v_rc_pred == ScaleBy(alpha, e2.x[2])
                     + RoundDiv(RoundDiv(e2.R1 * (10000 - alpha), 100)
                                * current_ma, 100000)
        P_pred == << e2.P[1] + Q_noise[1],
                     RoundDiv(alpha * e2.P[2], 10000),
                     RoundDiv(alpha * e2.P[3], 10000),
                     RoundDiv(alpha * RoundDiv(alpha * e2.P[4], 10000), 10000)
                         + Q_noise[4] >>
    IN  [ ekf |-> e2, soc_pred |-> soc_pred, v_rc_pred |-> v_rc_pred,
          P_pred |-> P_pred ]

\* update, lines 97-127: bootstrap, ECM refresh and the prediction
EkfPredict(e, tab, ecm, v_measured, current_ma, dt, temp_c) ==
    LET e0 == [ e EXCEPT !.temp_c = temp_c ]
        e1 == IF ~e0.initialized
              THEN InitializeFromVoltage(e0, tab, v_measured, temp_c)
              ELSE e0
        e2 == [ e1 EXCEPT !.R0 = ecm.R0, !.R1 = ecm.R1, !.C1 = ecm.C1,
                          !.tau1 = Max(ecm.R1 * ecm.C1, 10000) ]
        alpha == ExpNeg(RoundDiv(dt * 100000000, e2.tau1))
        soc_pred == Clip(e2.x[1] - RoundDiv(Eta * current_ma * dt, 10 * Q_As),
                         0, 10000)
        v_rc_pred == ScaleBy(alpha, e2.x[2])
                     + RoundDiv(RoundDiv(e2.R1 * (10000 - alpha), 100)
                                * current_ma, 100000)
        P_pred == << e2.P[1] + Q_noise[1],
                     RoundDiv(alpha * e2.P[2], 10000),
                     RoundDiv(alpha * e2.P[3], 10000),
                     RoundDiv(alpha * RoundDiv(alpha * e2.P[4], 10000), 10000)
                         + Q_noise[4] >>
    IN  [ ekf |-> e2, soc_pred |-> soc_pred, v_rc_pred |-> v_rc_pred,
          P_pred |-> P_pred ]

\* the measurement update without the hard clamp of line 143
EkfCorrect_NoClamp(e, tab, pr, v_measured, current_ma, temp_c) ==
    LET ocv == OcvFromSoc(tab, pr.soc_pred, temp_c)
        v_hat == ocv + RoundDiv(current_ma * e.R0, 1000) + pr.v_rc_pred
        innovation == v_measured - v_hat
        h0 == DocvDsoc(tab, pr.soc_pred, temp_c)
        Pp == pr.P_pred
        S == RoundDiv(h0 * RoundDiv(h0 * Pp[1], 100), 100)
             + RoundDiv(h0 * (Pp[2] + Pp[3]), 100) + Pp[4] + R_noise
        K0 == RoundDiv((RoundDiv(h0 * Pp[1], 100) + Pp[2]) * 1000, S)
        K1 == RoundDiv((RoundDiv(h0 * Pp[3], 100) + Pp[4]) * 1000, S)
        x0 == pr.soc_pred + RoundDiv(K0 * innovation, 1000)
        x1 == pr.v_rc_pred + RoundDiv(K1 * innovation, 1000)
        a0 == 10000 - RoundDiv(K0 * h0, 10)
        b1 == RoundDiv(K1 * h0, 100)
        P == << RoundDiv(a0 * Pp[1], 10000) - RoundDiv(K0 * Pp[3], 1000),
                RoundDiv(a0 * Pp[2], 10000) - RoundDiv(K0 * Pp[4], 1000),
                RoundDiv((1000 - K1) * Pp[3], 1000) - RoundDiv(b1 * Pp[1], 1000),
                RoundDiv((1000 - K1) * Pp[4], 1000) - RoundDiv(b1 * Pp[2], 1000) >>
    IN  [ ekf |-> [ e EXCEPT !.x = << x0, x1 >>, !.P = P ],
          result |-> [ soc |-> x0, v_rc |-> x1, v_predicted |-> v_hat,
                       innovation |-> innovation,
                       sigma_soc |-> ISqrt(P[1] * 10),
                       ocv |-> ocv, R0 |-> e.R0, R1 |-> e.R1 ] ]

\* the measurement update with the correction added to the state before the
\* prediction, not to x_pred (line 142)
EkfCorrect_FromPrior(e, tab, pr, v_measured, current_ma, temp_c) ==
    LET ocv == OcvFromSoc(tab, pr.soc_pred, temp_c)
        v_hat == ocv + RoundDiv(current_ma * e.R0, 1000) + pr.v_rc_pred
        innovation == v_measured - v_hat
        h0 == DocvDsoc(tab, pr.soc_pred, temp_c)
        Pp == pr.P_pred
        S == RoundDiv(h0 * RoundDiv(h0 * Pp[1], 100), 100)
             + RoundDiv(h0 * (Pp[2] + Pp[3]), 100) + Pp[4] + R_noise
        K0 == RoundDiv((RoundDiv(h0 * Pp[1], 100) + Pp[2]) * 1000, S)
        K1 == RoundDiv((RoundDiv(h0 * Pp[3], 100) + Pp[4]) * 1000, S)
        x0 == Clip(e.x[1] + RoundDiv(K0 * innovation, 1000), 0, 10000)
        x1 == e.x[2] + RoundDiv(K1 * innovation, 1000)
        a0 == 10000 - RoundDiv(K0 * h0, 10)
        b1 == RoundDiv(K1 * h0, 100)
        P == << RoundDiv(a0 * Pp[1], 10000) - RoundDiv(K0 * Pp[3], 1000),
                RoundDiv(a0 * Pp[2], 10000) - RoundDiv(K0 * Pp[4], 1000),
                RoundDiv((1000 - K1) * Pp[3], 1000) - RoundDiv(b1 * Pp[1], 1000),
                RoundDiv((1000 - K1) * Pp[4], 1000) - RoundDiv(b1 * Pp[2], 1000) >>
    IN  [ ekf |-> [ e EXCEPT !.x = << x0, x1 >>, !.P = P ],
          result |-> [ soc |-> x0, v_rc |-> x1, v_predicted |-> v_hat,
                       innovation |-> innovation,
                       sigma_soc |-> ISqrt(P[1] * 10),
                       ocv |-> ocv, R0 |-> e.R0, R1 |-> e.R1 ] ]

\* update, lines 129-157: the measurement update on a prediction pr
EkfCorrect(e, tab, pr, v_measured, current_ma, temp_c) ==
    LET ocv == OcvFromSoc(tab, pr.soc_pred, temp_c)
        v_hat == ocv + RoundDiv(current_ma * e.R0, 1000) + pr.v_rc_pred
        innovation == v_measured - v_hat
        h0 == DocvDsoc(tab, pr.soc_pred, temp_c)
        Pp == pr.P_pred
        S == RoundDiv(h0 * RoundDiv(h0 * Pp[1], 100), 100)
             + RoundDiv(h0 * (Pp[2] + Pp[3]), 100) + Pp[4] + R_noise
        K0 == RoundDiv((RoundDiv(h0 * Pp[1], 100) + Pp[2]) * 1000, S)
        K1 == RoundDiv((RoundDiv(h0 * Pp[3], 100) + Pp[4]) * 1000, S)
        x0 == Clip(pr.soc_pred + RoundDiv(K0 * innovation, 1000), 0, 10000)
        x1 == pr.v_rc_pred + RoundDiv(K1 * innovation, 1000)
        a0 == 10000 - RoundDiv(K0 * h0, 10)
        b1 == RoundDiv(K1 * h0, 100)
        P == << RoundDiv(a0 * Pp[1], 10000) - RoundDiv(K0 * Pp[3], 1000),
                RoundDiv(a0 * Pp[2], 10000) - RoundDiv(K0 * Pp[4], 1000),
                RoundDiv((1000 - K1) * Pp[3], 1000) - RoundDiv(b1 * Pp[1], 1000),
                RoundDiv((1000 - K1) * Pp[4], 1000) - RoundDiv(b1 * Pp[2], 1000) >>
    IN  [ ekf |-> [ e EXCEPT !.x = << x0, x1 >>, !.P = P ],
          result |-> [ soc |-> x0, v_rc |-> x1, v_predicted |-> v_hat,
                       innovation |-> innovation,
                       sigma_soc |-> ISqrt(P[1] * 10),
                       ocv |-> ocv, R0 |-> e.R0, R1 |-> e.R1 ] ]

\* update as one call
EkfUpdate(e, tab, ecm, v_measured, current_ma, dt, temp_c) ==
    LET pr == EkfPredict(e, tab, ecm, v_measured, current_ma, dt, temp_c)
    IN  EkfCorrect(pr.ekf, tab, pr, v_measured, current_ma, temp_c)

(***************************************************************************)
(* SOHEstimator.  full_cycles in 1e-6 cycles, charge and throughput in     *)
(* mA*s (3.6e6 mA*s = 1 Ah), r0_ema in 1e-6 Ohm.                           *)
(***************************************************************************)
\* CAPACITY_FADE_PER_CYCLE_PCT = 0.04, in 1e-2 %
CAPACITY_FADE_PER_CYCLE_PCT == 4

\* soh_eol_pct = 80.0, in 1e-2 %
SohEol == 8000

\* maxlen of _soh_history and _r0_history
HistoryMaxLen == 200

\* a buffer that refuses the new value when it is full
DequeAppend_DropNewest(q, v, n) ==
    IF Len(q) < n THEN Append(q, v) ELSE q

\* deque(maxlen = n).append(v)
DequeAppend(q, v, n) ==
    IF Len(q) < n THEN Append(q, v) ELSE Append(Tail(q), v)

\* SOHEstimator.__init__ at time now, nominal_R0 in 1e-4 Ohm
SOHEstimator(id, nominal_R0, now) ==
    [ id |-> id, R0_new |-> nominal_R0 * 100,
      soh_capacity |-> 10000, soh_resistance |-> 10000, soh_combined |-> 10000,
      full_cycles |-> 0, charge_accumulated_mas |-> 0,
      has_last_soc |-> FALSE, last_soc |-> 0,
      r0_ema |-> nominal_R0 * 100, total_mas_throughput |-> 0,
      start_time |-> now, last_update_time |-> now,
      soh_history |-> << >>, r0_history |-> << >> ]

\* a * m / b rounded to the nearest integer for a >= 0, b > 0: the multiple
\* of b in a is scaled exactly
MulDiv(a, m, b) == (a \div b) * m + RoundDiv((a % b) * m, b)

\* the charge moved in one update without the absolute value of line 104
ChargeMoved_Signed(current_ma, dt_actual) == current_ma * dt_actual

\* line 104: dq_ah = abs(current_a) * dt_actual / 3600.0, in mA*s
ChargeMoved(current_ma, dt_actual) == Abs(current_ma) * dt_actual

\* the capacity-based SOH without the clamp of line 120
CapacitySoh_NoClamp(cycles) ==
    10000 - RoundDiv(cycles, 1000000 \div CAPACITY_FADE_PER_CYCLE_PCT)

\* the capacity-based SOH with the fade of a tenth of a cycle per cycle
CapacitySoh_SlowFade(cycles) ==
    Clip(10000 - RoundDiv(cycles, 10000000 \div CAPACITY_FADE_PER_CYCLE_PCT),
         SohEol - 500, 10000)

\* lines 119-120: 100 - full_cycles * CAPACITY_FADE_PER_CYCLE_PCT, clamped
\* (cycles * fade / 1e6 is cycles / (1e6 / fade))
CapacitySoh(cycles) ==
    Clip(10000 - RoundDiv(cycles, 1000000 \div CAPACITY_FADE_PER_CYCLE_PCT),
         SohEol - 500, 10000)

\* remaining cycles taken from the capacity-based SOH alone
RulCycles_FromCapacity(comb, soh_cap) ==
    RoundDiv(Max(soh_cap - SohEol, 0) * 100,
             Max(10 * CAPACITY_FADE_PER_CYCLE_PCT, 1))

\* the remaining cycles without the floor at soh_eol
RulCycles_NoFloor(comb, soh_cap) ==
    RoundDiv((comb - SohEol) * 100,
             Max(10 * CAPACITY_FADE_PER_CYCLE_PCT, 1))

\* lines 134-136: (soh_combined - soh_eol) / fade per cycle, in 0.1 cycles
RulCycles(comb, soh_cap) ==
    RoundDiv(Max(comb - SohEol, 0) * 100,
             Max(10 * CAPACITY_FADE_PER_CYCLE_PCT, 1))

\* the branches of lines 107-111 without the threshold
Reversal_NoThreshold(s, soc) ==
    IF ~s.has_last_soc THEN "none"
    ELSE IF soc - s.last_soc < 0 THEN "discharging"
    ELSE IF soc - s.last_soc > 0 THEN "charging"
    ELSE "none"

\* the branches of lines 107-111 taking every fall of soc as jitter
Reversal_ChargeOnly(s, soc) ==
    IF ~s.has_last_soc THEN "none"
    ELSE IF soc - s.last_soc > 10 THEN "charging"
    ELSE "none"

\* lines 107-111: the direction soc moved since the previous update, by
\* more than 0.001
Reversal(s, soc) ==
    IF ~s.has_last_soc THEN "none"
    ELSE IF soc - s.last_soc < -10 THEN "discharging"
    ELSE IF soc - s.last_soc > 10 THEN "charging"
    ELSE "none"

\* update smoothing every resistance reading, plausible or not
SohUpdate_AnyReading(s, soc, current_ma, r0_measured, now) ==
    LET dt_actual == Min(now - s.last_update_time, 10)
        dq == ChargeMoved(current_ma, dt_actual)
        rev == Reversal(s, soc)
        discharging == rev = "discharging"
        flush == rev = "charging" /\ s.charge_accumulated_mas > 0
        acc == IF discharging THEN s.charge_accumulated_mas + dq
               ELSE IF flush THEN 0 ELSE s.charge_accumulated_mas
        cycles == IF flush
                  THEN s.full_cycles
                       + RoundDiv(s.charge_accumulated_mas * 10, 36 * CellCapacityAh)
                  ELSE s.full_cycles
        soh_cap == CapacitySoh(cycles)
        ema == RoundDiv(95 * s.r0_ema + 5 * r0_measured * 100, 100)
        frac20 == RoundDiv(2000 * (ema - s.R0_new), Max(s.R0_new, 100))
        soh_res == Clip(10000 - frac20, SohEol - 500, 10000)
        comb == Clip(RoundDiv(70 * soh_cap + 30 * soh_res, 100),
                     SohEol - 500, 10000)
        rul_cycles == RulCycles(comb, soh_cap)
        \* runtime in 1e-6 days: 1e6 / 86400 = 15625 / 1350
        runtime == RoundDiv((now - s.start_time) * 15625, 1350) + 1000
        per_day == Max(MulDiv(cycles, 100, runtime), 1)
        rul_days == Min(RoundDiv(rul_cycles * 100, per_day), 36500)
    IN  [ soh |-> [ s EXCEPT
              !.last_update_time = now,
              !.total_mas_throughput = @ + dq,
              !.charge_accumulated_mas = acc,
              !.full_cycles = cycles,
              !.has_last_soc = TRUE, !.last_soc = soc,
              !.soh_capacity = soh_cap, !.soh_resistance = soh_res,
              !.soh_combined = comb, !.r0_ema = ema,
              !.soh_history = DequeAppend(@, comb, HistoryMaxLen),
              !.r0_history = DequeAppend(@, ema, HistoryMaxLen) ],
          result |-> [ soh |-> comb, soh_capacity |-> soh_cap,
                       soh_resistance |-> soh_res,
                       full_cycles |-> RoundDiv(cycles, 1000),
                       rul_cycles |-> rul_cycles, rul_days |-> rul_days,
                       r0_ema |-> RoundDiv(ema, 10),
                       ah_throughput |-> RoundDiv(s.total_mas_throughput + dq, 360) ] ]

\* SOHEstimator.update at time now: the new state and the returned dict
SohUpdate(s, soc, current_ma, r0_measured, now) ==
    LET dt_actual == Min(now - s.last_update_time, 10)
        dq == ChargeMoved(current_ma, dt_actual)
        rev == Reversal(s, soc)
        discharging == rev = "discharging"
        flush == rev = "charging" /\ s.charge_accumulated_mas > 0
        acc == IF discharging THEN s.charge_accumulated_mas + dq
               ELSE IF flush THEN 0 ELSE s.charge_accumulated_mas
        cycles == IF flush
                  THEN s.full_cycles
                       + RoundDiv(s.charge_accumulated_mas * 10, 36 * CellCapacityAh)
                  ELSE s.full_cycles
        soh_cap == CapacitySoh(cycles)
        ema == IF r0_measured > 100
               THEN RoundDiv(95 * s.r0_ema + 5 * r0_measured * 100, 100)
               ELSE s.r0_ema
        frac20 == RoundDiv(2000 * (ema - s.R0_new), Max(s.R0_new, 100))
        soh_res == Clip(10000 - frac20, SohEol - 500, 10000)
        comb == Clip(RoundDiv(70 * soh_cap + 30 * soh_res, 100),
                     SohEol - 500, 10000)
        rul_cycles == RulCycles(comb, soh_cap)
        \* runtime in 1e-6 days: 1e6 / 86400 = 15625 / 1350
        runtime == RoundDiv((now - s.start_time) * 15625, 1350) + 1000
        per_day == Max(MulDiv(cycles, 100, runtime), 1)
        rul_days == Min(RoundDiv(rul_cycles * 100, per_day), 36500)
    IN  [ soh |-> [ s EXCEPT
              !.last_update_time = now,
              !.total_mas_throughput = @ + dq,
              !.charge_accumulated_mas = acc,
              !.full_cycles = cycles,
              !.has_last_soc = TRUE, !.last_soc = soc,
              !.soh_capacity = soh_cap, !.soh_resistance = soh_res,
              !.soh_combined = comb, !.r0_ema = ema,
              !.soh_history = DequeAppend(@, comb, HistoryMaxLen),
              !.r0_history = DequeAppend(@, ema, HistoryMaxLen) ],
          result |-> [ soh |-> comb, soh_capacity |-> soh_cap,
                       soh_resistance |-> soh_res,
                       full_cycles |-> RoundDiv(cycles, 1000),
                       rul_cycles |-> rul_cycles, rul_days |-> rul_days,
                       r0_ema |-> RoundDiv(ema, 10),
                       ah_throughput |-> RoundDiv(s.total_mas_throughput + dq, 360) ] ]

\* update taking its dt argument for the time since the previous update
SohUpdateDt_Integrates(s, soc, current_ma, r0_measured, dt, now) ==
    SohUpdate([ s EXCEPT !.last_update_time = now - dt ], soc, current_ma,
              r0_measured, now)

\* update(soc, current_a, r0_measured, dt): no line of the body reads dt
SohUpdateDt(s, soc, current_ma, r0_measured, dt, now) ==
    SohUpdate(s, soc, current_ma, r0_measured, now)

(***************************************************************************)
(* State.                                                                  *)
(***************************************************************************)
\* number of threads that call step()
NThreads == 2

Threads == 1 .. NThreads

\* lock holders: step threads are 1..NThreads, background checks 100 + b
Free == -1

InitThread == 0

BgThread(b) == 100 + b

\* Python's None for _ekf and _soh
None == [none |-> TRUE]

\* the sensor readings step() is called with
Reading1 ==
    [ voltage_v |-> 37200, current_ma |-> 1000, temperature_c |-> 25, dt |-> 2 ]

Reading2 ==
    [ voltage_v |-> 39000, current_ma |-> -5000, temperature_c |-> 30, dt |-> 2 ]

Readings == { Reading1, Reading2 }

\* what a finished high-fidelity simulation reports: (voltage, soc)
SimResults == { << 36500, 4200 >>, << 38000, 7000 >> }

\* dfn_bg_interval_s of the twin (a constructor parameter), in seconds
DfnBgInterval == 1

\* the buffered samples a high-fidelity check needs: len(buffer) >= 5
MinProfile == 5

\* maxlen of _current_buffer
CurrentBufferMaxLen == 60

VARIABLES
    \* DFNInterface
    dfnLock,            \* holder of DFNInterface._lock
    pybamm,             \* _pybamm is not None
    cache,              \* the cache file: "hit" (fresh, matching) or "miss"
    ocv_soc, ocv_v,     \* the OCV table
    ecm,                \* ecm_R0, ecm_R1, ecm_C1
    is_ready, status, error,
    dfn_last_voltage, dfn_last_soc, dfn_last_run_ts,
    initPc, initEcm,    \* the DFN-init thread and its local ecm
    bg, nBg,            \* the DFN-bg threads, and how many were started
    \* BatteryDigitalTwin
    ekfLock,            \* holder of _ekf_lock
    ekf, soh,           \* _ekf, _soh
    current_buffer, last_dfn_bg_time, last_result, step_count,
    pc, loc,            \* each step() caller: position and locals
    callers, limit,     \* the threads that call step(), and how many calls
    readings,           \* the sensor readings they call it with
    clock,              \* time.time() - Epoch
    \* history
    ekfBuilt, sohBuilt, initEvents,   \* constructions and their log line
    requests,           \* times of the high-fidelity check requests
    started,            \* step() calls begun
    returns,            \* step_count of each returned result, in order
    ret                 \* each caller's last return: the result, and what
                        \* the call was given and found

dfnVars == << dfnLock, pybamm, cache, ocv_soc, ocv_v, ecm, is_ready, status,
              error, dfn_last_voltage, dfn_last_soc, dfn_last_run_ts >>

initVars == << initPc, initEcm >>

bgVars == << bg, nBg >>

twinVars == << ekfLock, ekf, soh, current_buffer, last_dfn_bg_time,
               last_result, step_count >>

histVars == << ekfBuilt, sohBuilt, initEvents, requests, started, returns, ret >>

envVars == << callers, limit, readings >>

vars == << dfnVars, initVars, bgVars, twinVars, pc, loc, envVars, clock,
          histVars >>

\* time.time() when the clock shows n
At(n) == Epoch + n

BgIdle == [ pc |-> "unborn", profile |-> << >>, dt_s |-> 0, soc_init |-> 0,
            v_final |-> 0, soc_final |-> 0, outcome |-> "none" ]

\* locals of a step() call that has not begun
LocIdle ==
    [ voltage_v |-> 0, current_ma |-> 0, temperature_c |-> 0, dt |-> 0,
      ecm |-> None, pred |-> None, soh_seen |-> None, soh_now |-> 0,
      path |-> "none", soc_ekf |-> 0, ocv |-> 0, v_pred |-> 0,
      innovation |-> 0, sigma_soc |-> 0, r0 |-> 0,
      soh_result |-> << >>, now |-> 0, count |-> 0,
      dfn_ready |-> FALSE, dfn_status |-> "", dfn_soc |-> 0,
      dfn_voltage |-> 0, res_count |-> 0,
      \* what the call found when it began and at its lazy-init check
      call |-> None, fresh |-> FALSE, after_fail |-> FALSE,
      lazy_ready |-> FALSE ]

\* DFNInterface.__init__, initialize_async and BatteryDigitalTwin.__init__,
\* for the threads c that will call step() n times altogether with readings rs
InitWith(c, n, rs) ==
    /\ callers = c /\ limit = n /\ readings = rs
    /\ dfnLock = Free
    /\ pybamm \in BOOLEAN
    /\ cache \in IF pybamm THEN { "hit", "miss" } ELSE { "miss" }
    /\ ocv_soc = << >> /\ ocv_v = << >>
    /\ ecm = LitEcm
    /\ is_ready = FALSE /\ status = "initializing" /\ error = ""
    /\ dfn_last_voltage = 0 /\ dfn_last_soc = 5000 /\ dfn_last_run_ts = 0
    /\ initPc = "start" /\ initEcm = None
    /\ bg = [ b \in 1 .. MaxBg |-> BgIdle ] /\ nBg = 0
    /\ ekfLock = Free /\ ekf = None /\ soh = None
    /\ current_buffer = << >> /\ last_dfn_bg_time = 0
    /\ last_result = << >> /\ step_count = 0
    /\ pc = [ t \in Threads |-> "idle" ]
    /\ loc = [ t \in Threads |-> LocIdle ]
    /\ clock = 0
    /\ ekfBuilt = 0 /\ sohBuilt = 0 /\ initEvents = 0
    /\ requests = << >> /\ started = 0 /\ returns = << >>
    /\ ret = [ t \in Threads |-> << >> ]

\* one caller: step() is called serially
Init == InitWith({ 1 }, MaxSteps, { Reading1 })

\* step() is called from every thread
InitRace == InitWith(Threads, MaxRaceSteps, { Reading1 })

\* time.time() returns n: the clock has advanced to n
Time(n) == n \in clock .. MaxTime /\ clock' = n

(***************************************************************************)
(* DFNInterface._initialize, on the DFN-init thread.                       *)
(***************************************************************************)
\* lines 193-206: no pybamm raises; _load_cache; else status = "running_spm"
InitStart ==
    /\ initPc = "start"
    /\ IF ~pybamm
       THEN /\ initPc' = "fallback"
            /\ UNCHANGED << dfnVars, initEcm >>
       ELSE IF cache = "hit"
       THEN /\ dfnLock = Free
            /\ ocv_soc' = GenSoc /\ ocv_v' = GenOcv /\ ecm' = GenEcm
            /\ initPc' = "cache_ready"
            /\ UNCHANGED << dfnLock, pybamm, cache, is_ready, status, error,
                            dfn_last_voltage, dfn_last_soc, dfn_last_run_ts,
                            initEcm >>
       ELSE /\ status' = "running_spm"
            /\ initPc' = "gen"
            /\ UNCHANGED << dfnLock, pybamm, cache, ocv_soc, ocv_v, ecm,
                            is_ready, error, dfn_last_voltage, dfn_last_soc,
                            dfn_last_run_ts, initEcm >>
    /\ UNCHANGED << bgVars, twinVars, pc, loc, envVars, clock, histVars >>

\* lines 199-200: with self._lock: is_ready = True
InitCacheReady ==
    /\ initPc = "cache_ready" /\ dfnLock = Free
    /\ dfnLock' = InitThread /\ is_ready' = TRUE
    /\ initPc' = "cache_status"
    /\ UNCHANGED << pybamm, cache, ocv_soc, ocv_v, ecm, status, error,
                    dfn_last_voltage, dfn_last_soc, dfn_last_run_ts, initEcm,
                    bgVars, twinVars, pc, loc, envVars, clock, histVars >>

\* line 201: status = "ready (cache)", and the lock is released
InitCacheStatus ==
    /\ initPc = "cache_status"
    /\ status' = "ready (cache)" /\ dfnLock' = Free
    /\ initPc' = "done"
    /\ UNCHANGED << pybamm, cache, ocv_soc, ocv_v, ecm, is_ready, error,
                    dfn_last_voltage, dfn_last_soc, dfn_last_run_ts, initEcm,
                    bgVars, twinVars, pc, loc, envVars, clock, histVars >>

\* lines 209-210: _generate_ocv_table raises or returns; _extract_ecm_params
\* returns the extracted values or, on its own failure, the literature ones
InitGenerate ==
    /\ initPc = "gen"
    /\ \/ /\ initPc' = "fallback" /\ UNCHANGED initEcm
       \/ /\ initPc' = "publish" /\ initEcm' \in { GenEcm, LitEcm }
    /\ UNCHANGED << dfnVars, bgVars, twinVars, pc, loc, envVars, clock, histVars >>

\* lines 216-222: with self._lock: table, ECM values, is_ready = True
InitPublish ==
    /\ initPc = "publish" /\ dfnLock = Free
    /\ dfnLock' = InitThread
    /\ ocv_soc' = GenSoc /\ ocv_v' = GenOcv /\ ecm' = initEcm
    /\ is_ready' = TRUE
    /\ initPc' = "publish_status"
    /\ UNCHANGED << pybamm, cache, status, error, dfn_last_voltage,
                    dfn_last_soc, dfn_last_run_ts, initEcm,
                    bgVars, twinVars, pc, loc, envVars, clock, histVars >>

\* line 223: status = "ready", and the lock is released
InitPublishStatus ==
    /\ initPc = "publish_status"
    /\ status' = "ready" /\ dfnLock' = Free
    /\ initPc' = "save"
    /\ UNCHANGED << pybamm, cache, ocv_soc, ocv_v, ecm, is_ready, error,
                    dfn_last_voltage, dfn_last_soc, dfn_last_run_ts, initEcm,
                    bgVars, twinVars, pc, loc, envVars, clock, histVars >>

\* _save_cache: a snapshot under the lock, then the file is written
InitSaveCache ==
    /\ initPc = "save" /\ dfnLock = Free
    /\ cache' = "hit"
    /\ initPc' = "done"
    /\ UNCHANGED << dfnLock, pybamm, ocv_soc, ocv_v, ecm, is_ready, status,
                    error, dfn_last_voltage, dfn_last_soc, dfn_last_run_ts,
                    initEcm, bgVars, twinVars, pc, loc, envVars, clock, histVars >>

\* the except branch installing the literature table without setting
\* is_ready
InitFallback_NotReady ==
    /\ initPc = "fallback" /\ dfnLock = Free
    /\ dfnLock' = InitThread
    /\ ocv_soc' = FALLBACK_SOC /\ ocv_v' = FALLBACK_OCV
    /\ initPc' = "fallback_status"
    /\ UNCHANGED << pybamm, cache, ecm, is_ready, status, error,
                    dfn_last_voltage, dfn_last_soc, dfn_last_run_ts, initEcm,
                    bgVars, twinVars, pc, loc, envVars, clock, histVars >>

\* lines 230-233: with self._lock: the literature table, is_ready = True
InitFallback ==
    /\ initPc = "fallback" /\ dfnLock = Free
    /\ dfnLock' = InitThread
    /\ ocv_soc' = FALLBACK_SOC /\ ocv_v' = FALLBACK_OCV
    /\ is_ready' = TRUE
    /\ initPc' = "fallback_status"
    /\ UNCHANGED << pybamm, cache, ecm, status, error, dfn_last_voltage,
                    dfn_last_soc, dfn_last_run_ts, initEcm,
                    bgVars, twinVars, pc, loc, envVars, clock, histVars >>

\* lines 234-235: status, error, and the lock is released
InitFallbackStatus ==
    /\ initPc = "fallback_status"
    /\ status' = "ready (fallback)"
    /\ error' = IF pybamm THEN "simulation failed" ELSE "pybamm not installed"
    /\ dfnLock' = Free
    /\ initPc' = "done"
    /\ UNCHANGED << pybamm, cache, ocv_soc, ocv_v, ecm, is_ready,
                    dfn_last_voltage, dfn_last_soc, dfn_last_run_ts, initEcm,
                    bgVars, twinVars, pc, loc, envVars, clock, histVars >>

InitStep ==
    \/ InitStart \/ InitCacheReady \/ InitCacheStatus \/ InitGenerate
    \/ InitPublish \/ InitPublishStatus \/ InitSaveCache
    \/ InitFallback \/ InitFallbackStatus

(***************************************************************************)
(* DFNInterface._run_dfn_sim, on a DFN-bg thread.                          *)
(***************************************************************************)
\* lines 336-346: the early returns
BgStart(b) ==
    /\ bg[b].pc = "start"
    /\ bg' = [ bg EXCEPT ![b] =
                 IF ~is_ready \/ ~pybamm \/ Len(@.profile) < 2
                 THEN [ BgIdle EXCEPT !.pc = "done", !.outcome = "skipped" ]
                 ELSE [ @ EXCEPT !.pc = "soc_init" ] ]
    /\ UNCHANGED << dfnVars, initVars, nBg, twinVars, pc, loc, envVars, clock, histVars >>

\* soc_init read under the lock, and the lock kept for the simulation
BgSocInit_HoldLock(b) ==
    /\ bg[b].pc = "soc_init" /\ dfnLock = Free
    /\ dfnLock' = BgThread(b)
    /\ bg' = [ bg EXCEPT ![b].pc = "solve",
                         ![b].soc_init = IF dfn_last_soc > 0 THEN dfn_last_soc
                                         ELSE 5000 ]
    /\ UNCHANGED << pybamm, cache, ocv_soc, ocv_v, ecm, is_ready, status,
                    error, dfn_last_voltage, dfn_last_soc, dfn_last_run_ts,
                    initVars, nBg, twinVars, pc, loc, envVars, clock, histVars >>

\* lines 359-360: with self._lock: soc_init
BgSocInit(b) ==
    /\ bg[b].pc = "soc_init" /\ dfnLock = Free
    /\ bg' = [ bg EXCEPT ![b].pc = "solve",
                         ![b].soc_init = IF dfn_last_soc > 0 THEN dfn_last_soc
                                         ELSE 5000 ]
    /\ UNCHANGED << dfnVars, initVars, nBg, twinVars, pc, loc, envVars, clock, histVars >>

\* lines 362-372: sim.solve returns; no lock is held meanwhile
BgSolve(b) ==
    /\ bg[b].pc = "solve"
    /\ \E r \in SimResults :
         bg' = [ bg EXCEPT ![b].pc = "write", ![b].v_final = r[1],
                           ![b].soc_final = r[2] ]
    /\ UNCHANGED << dfnVars, initVars, nBg, twinVars, pc, loc, envVars, clock, histVars >>

\* an exception handler that clears the published cross-check values
BgFail_Reset(b) ==
    /\ bg[b].pc \in { "soc_init", "solve" }
    /\ bg' = [ bg EXCEPT ![b] = [ BgIdle EXCEPT !.pc = "done",
                                                !.outcome = "failed" ] ]
    /\ dfn_last_voltage' = 0 /\ dfn_last_soc' = 0
    /\ UNCHANGED << dfnLock, pybamm, cache, ocv_soc, ocv_v, ecm, is_ready,
                    status, error, dfn_last_run_ts, initVars, nBg, twinVars,
                    pc, loc, envVars, clock, histVars >>

\* a failure that clears the throttle time, so that the next step asks again
BgFail_Unstamp(b) ==
    /\ bg[b].pc \in { "soc_init", "solve" }
    /\ bg' = [ bg EXCEPT ![b] = [ BgIdle EXCEPT !.pc = "done",
                                                !.outcome = "failed" ] ]
    /\ last_dfn_bg_time' = 0
    /\ UNCHANGED << dfnVars, initVars, nBg, ekfLock, ekf, soh, current_buffer,
                    last_result, step_count, pc, loc, envVars, clock,
                    histVars >>

\* lines 381-382: an exception of the model build or of the simulation
BgFail(b) ==
    /\ bg[b].pc \in { "soc_init", "solve" }
    /\ bg' = [ bg EXCEPT ![b] = [ BgIdle EXCEPT !.pc = "done",
                                                !.outcome = "failed" ] ]
    /\ UNCHANGED << dfnVars, initVars, nBg, twinVars, pc, loc, envVars, clock, histVars >>

\* lines 374-375: with self._lock: dfn_last_voltage
BgWriteVoltage(b) ==
    /\ bg[b].pc = "write" /\ dfnLock = Free
    /\ dfnLock' = BgThread(b)
    /\ dfn_last_voltage' = bg[b].v_final
    /\ bg' = [ bg EXCEPT ![b].pc = "write_soc" ]
    /\ UNCHANGED << pybamm, cache, ocv_soc, ocv_v, ecm, is_ready, status,
                    error, dfn_last_soc, dfn_last_run_ts, initVars, nBg,
                    twinVars, pc, loc, envVars, clock, histVars >>

\* lines 376-377: dfn_last_soc, dfn_last_run_ts, and the lock is released
BgWriteSoc(b, n) ==
    /\ bg[b].pc = "write_soc"
    /\ Time(n)
    /\ dfn_last_soc' = bg[b].soc_final
    /\ dfn_last_run_ts' = At(n)
    /\ dfnLock' = Free
    /\ bg' = [ bg EXCEPT ![b] = [ BgIdle EXCEPT !.pc = "done",
                                                !.outcome = "ok" ] ]
    /\ UNCHANGED << pybamm, cache, ocv_soc, ocv_v, ecm, is_ready, status,
                    error, dfn_last_voltage, initVars, nBg,
                    twinVars, pc, loc, envVars, histVars >>

BgStep(b) ==
    \/ BgStart(b) \/ BgSocInit(b) \/ BgSolve(b) \/ BgFail(b)
    \/ BgWriteVoltage(b) \/ \E n \in 0 .. MaxTime : BgWriteSoc(b, n)

(***************************************************************************)
(* BatteryDigitalTwin.step, on a caller's thread t.                        *)
(***************************************************************************)
\* the table ocv_from_soc / soc_from_ocv interpolate in
Table == GetOcvArrays(ocv_soc, ocv_v)

\* dict.get(key, default)
Get(d, key, default) == IF key \in DOMAIN d THEN d[key] ELSE default

\* lines 94-95: the call begins, the current is appended to the buffer
StepBegin(t, r) ==
    /\ pc[t] = "idle" /\ t \in callers /\ started < limit
    /\ loc' = [ loc EXCEPT ![t] =
                  [ LocIdle EXCEPT !.voltage_v = r.voltage_v,
                                   !.current_ma = r.current_ma,
                                   !.temperature_c = r.temperature_c,
                                   !.dt = r.dt,
                                   !.call = r,
                                   !.fresh = (ekf # None /\ soh # None),
                                   !.after_fail =
                                       (\E b \in 1 .. MaxBg :
                                            bg[b].outcome = "failed") ] ]
    /\ current_buffer' = DequeAppend(current_buffer, r.current_ma,
                                     CurrentBufferMaxLen)
    /\ started' = started + 1
    /\ ret' = [ ret EXCEPT ![t] = << >> ]
    /\ pc' = [ pc EXCEPT ![t] = "lazy" ]
    /\ UNCHANGED << dfnVars, initVars, bgVars, ekfLock, ekf, soh,
                    last_dfn_bg_time, last_result, step_count, envVars, clock,
                    ekfBuilt, sohBuilt, initEvents, requests, returns >>

\* the lazy-init check made without taking self._ekf_lock
LazyInit_NoLock(t) ==
    /\ pc[t] = "lazy"
    /\ IF ekf = None /\ is_ready
       THEN ekfLock' = t /\ pc' = [ pc EXCEPT ![t] = "ecm" ]
       ELSE ekfLock' = ekfLock /\ pc' = [ pc EXCEPT ![t] = "ekf" ]
    /\ loc' = [ loc EXCEPT ![t].lazy_ready = is_ready ]
    /\ UNCHANGED << dfnVars, initVars, bgVars, ekf, soh, current_buffer,
                    last_dfn_bg_time, last_result, step_count, envVars, clock,
                    histVars >>

\* the lazy-init check without "self._ekf is None"
LazyInit_Rebuild(t) ==
    /\ pc[t] = "lazy" /\ ekfLock = Free
    /\ IF is_ready
       THEN ekfLock' = t /\ pc' = [ pc EXCEPT ![t] = "ecm" ]
       ELSE ekfLock' = Free /\ pc' = [ pc EXCEPT ![t] = "ekf" ]
    /\ loc' = [ loc EXCEPT ![t].lazy_ready = is_ready ]
    /\ UNCHANGED << dfnVars, initVars, bgVars, ekf, soh, current_buffer,
                    last_dfn_bg_time, last_result, step_count, envVars, clock,
                    histVars >>

\* the lazy-init check without "self.dfn.is_ready"
LazyInit_NoReadyCheck(t) ==
    /\ pc[t] = "lazy" /\ ekfLock = Free
    /\ IF ekf = None
       THEN ekfLock' = t /\ pc' = [ pc EXCEPT ![t] = "ecm" ]
       ELSE ekfLock' = Free /\ pc' = [ pc EXCEPT ![t] = "ekf" ]
    /\ loc' = [ loc EXCEPT ![t].lazy_ready = is_ready ]
    /\ UNCHANGED << dfnVars, initVars, bgVars, ekf, soh, current_buffer,
                    last_dfn_bg_time, last_result, step_count, envVars, clock,
                    histVars >>

\* lines 98-99: with self._ekf_lock: if self._ekf is None and dfn.is_ready
LazyInit(t) ==
    /\ pc[t] = "lazy" /\ ekfLock = Free
    /\ IF ekf = None /\ is_ready
       THEN ekfLock' = t /\ pc' = [ pc EXCEPT ![t] = "ecm" ]
       ELSE ekfLock' = Free /\ pc' = [ pc EXCEPT ![t] = "ekf" ]
    /\ loc' = [ loc EXCEPT ![t].lazy_ready = is_ready ]
    /\ UNCHANGED << dfnVars, initVars, bgVars, ekf, soh, current_buffer,
                    last_dfn_bg_time, last_result, step_count, envVars, clock,
                    histVars >>

\* line 100: ecm = self.dfn.get_ecm_params()
LazyGetEcm(t) ==
    /\ pc[t] = "ecm" /\ dfnLock = Free
    /\ loc' = [ loc EXCEPT ![t].ecm = ecm ]
    /\ pc' = [ pc EXCEPT ![t] = "mk_ekf" ]
    /\ UNCHANGED << dfnVars, initVars, bgVars, twinVars, envVars, clock, histVars >>

\* lines 101-108: self._ekf = EKFSoCEstimator(...)
LazyMakeEkf(t) ==
    /\ pc[t] = "mk_ekf"
    /\ ekf' = EKFSoCEstimator(ekfBuilt + 1, loc[t].ecm.R0, loc[t].ecm.R1,
                              loc[t].ecm.C1, loc[t].temperature_c)
    /\ ekfBuilt' = ekfBuilt + 1
    /\ pc' = [ pc EXCEPT ![t] = "mk_soh" ]
    /\ UNCHANGED << dfnVars, initVars, bgVars, ekfLock, soh, current_buffer,
                    last_dfn_bg_time, last_result, step_count, loc, envVars, clock,
                    sohBuilt, initEvents, requests, started, returns, ret >>

\* the lazy block left without releasing self._ekf_lock
LazyMakeSoh_KeepLock(t, n) ==
    /\ pc[t] = "mk_soh"
    /\ Time(n)
    /\ soh' = SOHEstimator(sohBuilt + 1, loc[t].ecm.R0, At(n))
    /\ sohBuilt' = sohBuilt + 1
    /\ initEvents' = initEvents + 1
    /\ ekfLock' = ekfLock
    /\ pc' = [ pc EXCEPT ![t] = "ekf" ]
    /\ UNCHANGED << dfnVars, initVars, bgVars, ekf, current_buffer,
                    last_dfn_bg_time, last_result, step_count, loc, envVars,
                    ekfBuilt, requests, started, returns, ret >>

\* lines 109-114: self._soh = SOHEstimator(...), the log line, and the
\* lock is released
LazyMakeSoh(t, n) ==
    /\ pc[t] = "mk_soh"
    /\ Time(n)
    /\ soh' = SOHEstimator(sohBuilt + 1, loc[t].ecm.R0, At(n))
    /\ sohBuilt' = sohBuilt + 1
    /\ initEvents' = initEvents + 1
    /\ ekfLock' = Free
    /\ pc' = [ pc EXCEPT ![t] = "ekf" ]
    /\ UNCHANGED << dfnVars, initVars, bgVars, ekf, current_buffer,
                    last_dfn_bg_time, last_result, step_count, loc, envVars,
                    ekfBuilt, requests, started, returns, ret >>

\* line 117 with self._ekf None, line 132: soc_from_ocv
EkfAbsent(t) ==
    /\ pc[t] = "ekf" /\ ekf = None
    /\ loc' = [ loc EXCEPT ![t].path = "fallback" ]
    /\ pc' = [ pc EXCEPT ![t] = "fb_soc" ]
    /\ UNCHANGED << dfnVars, initVars, bgVars, twinVars, envVars, clock, histVars >>

\* line 132: soc_ekf = self.dfn.soc_from_ocv(voltage_v, temperature_c)
FallbackSoc(t) ==
    /\ pc[t] = "fb_soc" /\ dfnLock = Free
    /\ loc' = [ loc EXCEPT ![t].soc_ekf =
                  SocFromOcv(Table, loc[t].voltage_v, loc[t].temperature_c) ]
    /\ pc' = [ pc EXCEPT ![t] = "fb_ocv" ]
    /\ UNCHANGED << dfnVars, initVars, bgVars, twinVars, envVars, clock, histVars >>

\* lines 133-137: ocv_from_soc and the fixed fallback values
FallbackOcv(t) ==
    /\ pc[t] = "fb_ocv" /\ dfnLock = Free
    /\ loc' = [ loc EXCEPT
                  ![t].ocv = OcvFromSoc(Table, loc[t].soc_ekf,
                                        loc[t].temperature_c),
                  ![t].v_pred = loc[t].voltage_v,
                  ![t].innovation = 0,
                  ![t].sigma_soc = 500,
                  ![t].r0 = 620 ]
    /\ pc' = [ pc EXCEPT ![t] = "soh" ]
    /\ UNCHANGED << dfnVars, initVars, bgVars, twinVars, envVars, clock, histVars >>

\* line 117 with self._ekf present, then update lines 97-127: the filter's
\* state is read (after the bootstrap and the ECM refresh)
EkfRead(t) ==
    /\ pc[t] = "ekf" /\ ekf # None /\ dfnLock = Free
    /\ LET pr == EkfPredict(ekf, Table, ecm, loc[t].voltage_v,
                            loc[t].current_ma, loc[t].dt, loc[t].temperature_c)
       IN  /\ ekf' = pr.ekf
           /\ loc' = [ loc EXCEPT
                         ![t].path = "ekf",
                         ![t].pred = [ soc_pred |-> pr.soc_pred,
                                       v_rc_pred |-> pr.v_rc_pred,
                                       P_pred |-> pr.P_pred ] ]
    /\ pc' = [ pc EXCEPT ![t] = "ekf_wr" ]
    /\ UNCHANGED << dfnVars, initVars, bgVars, ekfLock, soh, current_buffer,
                    last_dfn_bg_time, last_result, step_count, envVars, clock, histVars >>

\* update lines 129-157: the filter's state is written, the dict returned
EkfWrite(t) ==
    /\ pc[t] = "ekf_wr" /\ dfnLock = Free
    /\ LET c == EkfCorrect(ekf, Table, loc[t].pred, loc[t].voltage_v,
                           loc[t].current_ma, loc[t].temperature_c)
       IN  /\ ekf' = c.ekf
           /\ loc' = [ loc EXCEPT
                         ![t].pred = None,
                         ![t].soc_ekf = c.result.soc,
                         ![t].v_pred = c.result.v_predicted,
                         ![t].innovation = c.result.innovation,
                         ![t].sigma_soc = c.result.sigma_soc,
                         ![t].ocv = c.result.ocv,
                         ![t].r0 = c.result.R0 ]
    /\ pc' = [ pc EXCEPT ![t] = "soh" ]
    /\ UNCHANGED << dfnVars, initVars, bgVars, ekfLock, soh, current_buffer,
                    last_dfn_bg_time, last_result, step_count, envVars, clock, histVars >>

\* lines 140-141 with self._soh None: soh_result = {}
SohAbsent(t) ==
    /\ pc[t] = "soh" /\ soh = None
    /\ loc' = [ loc EXCEPT ![t].soh_result = << >> ]
    /\ pc' = [ pc EXCEPT ![t] = "throttle" ]
    /\ UNCHANGED << dfnVars, initVars, bgVars, twinVars, envVars, clock, histVars >>

\* line 141 with self._soh present: update reads the clock and its state
SohRead(t, n) ==
    /\ pc[t] = "soh" /\ soh # None
    /\ Time(n)
    /\ loc' = [ loc EXCEPT ![t].soh_seen = soh, ![t].soh_now = At(n) ]
    /\ pc' = [ pc EXCEPT ![t] = "soh_wr" ]
    /\ UNCHANGED << dfnVars, initVars, bgVars, twinVars, envVars, histVars >>

\* update writes its state and returns its dict
SohWrite(t) ==
    /\ pc[t] = "soh_wr"
    /\ LET u == SohUpdateDt(loc[t].soh_seen, loc[t].soc_ekf,
                            loc[t].current_ma, loc[t].r0, loc[t].dt,
                            loc[t].soh_now)
       IN  /\ soh' = u.soh
           /\ loc' = [ loc EXCEPT ![t].soh_seen = None, ![t].soh_now = 0,
                                  ![t].soh_result = u.result ]
    /\ pc' = [ pc EXCEPT ![t] = "throttle" ]
    /\ UNCHANGED << dfnVars, initVars, bgVars, ekfLock, ekf, current_buffer,
                    last_dfn_bg_time, last_result, step_count, envVars, clock, histVars >>

\* the throttle's condition without the test of the buffer's length
Due_AnyBuffer(now) ==
    /\ now - last_dfn_bg_time > DfnBgInterval
    /\ is_ready

\* lines 150-153: now = time.time() and the throttle's condition
Due(now) ==
    /\ now - last_dfn_bg_time > DfnBgInterval
    /\ Len(current_buffer) >= MinProfile
    /\ is_ready

ThrottleCheck(t, n) ==
    /\ pc[t] = "throttle"
    /\ Time(n)
    /\ Due(At(n)) => nBg < MaxBg
    /\ loc' = [ loc EXCEPT ![t].now = At(n) ]
    /\ pc' = [ pc EXCEPT ![t] = IF Due(At(n)) THEN "request" ELSE "count" ]
    /\ UNCHANGED << dfnVars, initVars, bgVars, twinVars, envVars, histVars >>

\* the request without line 155: the throttle time is not set
Request_NoStamp(t) ==
    /\ pc[t] = "request" /\ nBg < MaxBg
    /\ bg' = [ bg EXCEPT ![nBg + 1] =
                 [ BgIdle EXCEPT !.pc = "start", !.profile = current_buffer,
                                 !.dt_s = loc[t].dt ] ]
    /\ nBg' = nBg + 1
    /\ requests' = Append(requests, loc[t].now)
    /\ pc' = [ pc EXCEPT ![t] = "count" ]
    /\ UNCHANGED << dfnVars, initVars, twinVars, loc, envVars, clock,
                    ekfBuilt, sohBuilt, initEvents, started, returns, ret >>

\* lines 154-155 and run_background_dfn: the DFN-bg thread is started with a
\* copy of the buffer, and the throttle time is set
Request(t) ==
    /\ pc[t] = "request" /\ nBg < MaxBg
    /\ bg' = [ bg EXCEPT ![nBg + 1] =
                 [ BgIdle EXCEPT !.pc = "start", !.profile = current_buffer,
                                 !.dt_s = loc[t].dt ] ]
    /\ nBg' = nBg + 1
    /\ last_dfn_bg_time' = loc[t].now
    /\ requests' = Append(requests, loc[t].now)
    /\ pc' = [ pc EXCEPT ![t] = "count" ]
    /\ UNCHANGED << dfnVars, initVars, ekfLock, ekf, soh, current_buffer,
                    last_result, step_count, loc, envVars, clock,
                    ekfBuilt, sohBuilt, initEvents, started, returns, ret >>

\* line 157, self._step_count += 1: the load
CountLoad(t) ==
    /\ pc[t] = "count"
    /\ loc' = [ loc EXCEPT ![t].count = step_count ]
    /\ pc' = [ pc EXCEPT ![t] = "count_store" ]
    /\ UNCHANGED << dfnVars, initVars, bgVars, twinVars, envVars, clock, histVars >>

\* line 157, self._step_count += 1: the store
CountStore(t) ==
    /\ pc[t] = "count_store"
    /\ step_count' = loc[t].count + 1
    /\ pc' = [ pc EXCEPT ![t] = "pk_ready" ]
    /\ UNCHANGED << dfnVars, initVars, bgVars, ekfLock, ekf, soh,
                    current_buffer, last_dfn_bg_time, last_result, loc, envVars, clock,
                    histVars >>

\* line 181: "dfn_ready": self.dfn.is_ready
PackReady(t) ==
    /\ pc[t] = "pk_ready"
    /\ loc' = [ loc EXCEPT ![t].dfn_ready = is_ready ]
    /\ pc' = [ pc EXCEPT ![t] = "pk_status" ]
    /\ UNCHANGED << dfnVars, initVars, bgVars, twinVars, envVars, clock, histVars >>

\* line 182: "dfn_status": self.dfn.status
PackStatus(t) ==
    /\ pc[t] = "pk_status"
    /\ loc' = [ loc EXCEPT ![t].dfn_status = status ]
    /\ pc' = [ pc EXCEPT ![t] = "pk_soc" ]
    /\ UNCHANGED << dfnVars, initVars, bgVars, twinVars, envVars, clock, histVars >>

\* line 183: "dfn_soc": round(self.dfn.dfn_last_soc * 100.0, 2)
PackSoc(t) ==
    /\ pc[t] = "pk_soc"
    /\ loc' = [ loc EXCEPT ![t].dfn_soc = dfn_last_soc ]
    /\ pc' = [ pc EXCEPT ![t] = "pk_voltage" ]
    /\ UNCHANGED << dfnVars, initVars, bgVars, twinVars, envVars, clock, histVars >>

\* line 184: "dfn_voltage": round(self.dfn.dfn_last_voltage, 4)
PackVoltage(t) ==
    /\ pc[t] = "pk_voltage"
    /\ loc' = [ loc EXCEPT ![t].dfn_voltage = dfn_last_voltage ]
    /\ pc' = [ pc EXCEPT ![t] = "pk_count" ]
    /\ UNCHANGED << dfnVars, initVars, bgVars, twinVars, envVars, clock, histVars >>

\* "step_count" packaged from the value loaded before the increment
PackCount_Stale(t) ==
    /\ pc[t] = "pk_count"
    /\ loc' = [ loc EXCEPT ![t].res_count = loc[t].count ]
    /\ pc' = [ pc EXCEPT ![t] = "publish" ]
    /\ UNCHANGED << dfnVars, initVars, bgVars, twinVars, envVars, clock, histVars >>

\* line 187: "step_count": self._step_count
PackCount(t) ==
    /\ pc[t] = "pk_count"
    /\ loc' = [ loc EXCEPT ![t].res_count = step_count ]
    /\ pc' = [ pc EXCEPT ![t] = "publish" ]
    /\ UNCHANGED << dfnVars, initVars, bgVars, twinVars, envVars, clock, histVars >>

\* the keys of the result dict, lines 162-188
ResultFields ==
    { "soc_ekf", "soc_pct", "ocv", "v_predicted", "v_measured", "innovation",
      "sigma_soc", "r0", "soh", "soh_capacity", "soh_resistance", "rul_days",
      "rul_cycles", "full_cycles", "r0_ema", "dfn_ready", "dfn_status",
      "dfn_soc", "dfn_voltage", "step_count", "uptime_s" }

\* the result dict with the SOH entries copied from soh_result as they are,
\* without dict.get's defaults
Result_Spread(l) ==
    LET base == [ soc_ekf |-> l.soc_ekf, soc_pct |-> l.soc_ekf, ocv |-> l.ocv,
                  v_predicted |-> l.v_pred, v_measured |-> l.voltage_v,
                  innovation |-> l.innovation, sigma_soc |-> l.sigma_soc,
                  r0 |-> l.r0 * 10,
                  dfn_ready |-> l.dfn_ready, dfn_status |-> l.dfn_status,
                  dfn_soc |-> l.dfn_soc, dfn_voltage |-> l.dfn_voltage,
                  step_count |-> l.res_count, uptime_s |-> l.now - Epoch ]
        keys == (DOMAIN l.soh_result) \cap ResultFields
    IN  [ k \in DOMAIN base \cup keys |->
            IF k \in DOMAIN base THEN base[k] ELSE l.soh_result[k] ]

\* lines 160-189: the result dict of a call with locals l; r0 and r0_ema in
\* 1e-5 Ohm, rul_* in 0.1, full_cycles in 1e-3
Result(l) ==
    [ soc_ekf |-> l.soc_ekf, soc_pct |-> l.soc_ekf, ocv |-> l.ocv,
      v_predicted |-> l.v_pred, v_measured |-> l.voltage_v,
      innovation |-> l.innovation, sigma_soc |-> l.sigma_soc,
      r0 |-> l.r0 * 10,
      soh |-> Get(l.soh_result, "soh", 10000),
      soh_capacity |-> Get(l.soh_result, "soh_capacity", 10000),
      soh_resistance |-> Get(l.soh_result, "soh_resistance", 10000),
      rul_days |-> Get(l.soh_result, "rul_days", 0),
      rul_cycles |-> Get(l.soh_result, "rul_cycles", 0),
      full_cycles |-> Get(l.soh_result, "full_cycles", 0),
      r0_ema |-> Get(l.soh_result, "r0_ema", l.r0 * 10),
      dfn_ready |-> l.dfn_ready, dfn_status |-> l.dfn_status,
      dfn_soc |-> l.dfn_soc, dfn_voltage |-> l.dfn_voltage,
      step_count |-> l.res_count, uptime_s |-> l.now - Epoch ]

\* lines 190-191: self._last_result = result; return result
Publish(t) ==
    /\ pc[t] = "publish"
    /\ last_result' = Result(loc[t])
    /\ ret' = [ ret EXCEPT ![t] = [ call |-> loc[t].call,
                                    fresh |-> loc[t].fresh,
                                    after_fail |-> loc[t].after_fail,
                                    path |-> loc[t].path,
                                    result |-> Result(loc[t]) ] ]
    /\ returns' = Append(returns, loc[t].res_count)
    /\ loc' = [ loc EXCEPT ![t] = LocIdle ]
    /\ pc' = [ pc EXCEPT ![t] = "idle" ]
    /\ UNCHANGED << dfnVars, initVars, bgVars, ekfLock, ekf, soh,
                    current_buffer, last_dfn_bg_time, step_count, envVars, clock,
                    ekfBuilt, sohBuilt, initEvents, requests, started >>

Step(t) ==
    \/ \E r \in readings : StepBegin(t, r)
    \/ LazyInit(t) \/ LazyGetEcm(t) \/ LazyMakeEkf(t)
    \/ \E n \in 0 .. MaxTime : LazyMakeSoh(t, n)
    \/ EkfAbsent(t) \/ FallbackSoc(t) \/ FallbackOcv(t)
    \/ EkfRead(t) \/ EkfWrite(t)
    \/ SohAbsent(t) \/ SohWrite(t)
    \/ \E n \in 0 .. MaxTime : SohRead(t, n) \/ ThrottleCheck(t, n)
    \/ Request(t)
    \/ CountLoad(t) \/ CountStore(t)
    \/ PackReady(t) \/ PackStatus(t) \/ PackSoc(t) \/ PackVoltage(t)
    \/ PackCount(t) \/ Publish(t)

Next ==
    \/ InitStep
    \/ \E b \in 1 .. MaxBg : BgStep(b)
    \/ \E t \in Threads : Step(t)

Spec == Init /\ [][Next]_vars

\* the calls of one clock second, before any high-fidelity check is due
\* (fewer than MinProfile samples are buffered)
NextEarly ==
    \/ InitStep
    \/ \E t \in Threads :
         \/ \E r \in readings : StepBegin(t, r)
         \/ LazyInit(t) \/ LazyGetEcm(t) \/ LazyMakeEkf(t)
         \/ LazyMakeSoh(t, clock)
         \/ EkfAbsent(t) \/ FallbackSoc(t) \/ FallbackOcv(t)
         \/ EkfRead(t) \/ EkfWrite(t)
         \/ SohAbsent(t) \/ SohRead(t, clock) \/ SohWrite(t)
         \/ ThrottleCheck(t, clock)
         \/ CountLoad(t) \/ CountStore(t)
         \/ PackReady(t) \/ PackStatus(t) \/ PackSoc(t) \/ PackVoltage(t)
         \/ PackCount(t) \/ Publish(t)

SpecRace == InitRace /\ [][NextEarly]_vars

\* one caller, several readings, before any high-fidelity check is due
InitEarly == InitWith({ 1 }, MaxRaceSteps, Readings)

SpecEarly == InitEarly /\ [][NextEarly]_vars

(***************************************************************************)
(* The SOC filter on its own: EKFSoCEstimator.update called on one filter  *)
(* with any measured voltage, current, time step and temperature of        *)
(* EkfInputs, over each table the provider can hold.                       *)
(***************************************************************************)
\* number of update calls
MaxEkfCalls == 3

\* measured voltages below, inside and above every OCV table; a small
\* discharge and a charge and a discharge of 50 A
EkfInputs ==
    { [ voltage_v |-> v, current_ma |-> i, temperature_c |-> 25, dt |-> d ] :
        v \in { 25000, 37200, 45000 }, i \in { -50000, 1000, 50000 },
        d \in { 2, 10 } }

\* a ready provider holding table (s, o) and ECM values m, and a filter made
\* from them
InitEkf ==
    /\ callers = { } /\ limit = MaxEkfCalls /\ readings = EkfInputs
    /\ dfnLock = Free /\ pybamm = TRUE /\ cache = "miss"
    /\ \E tab \in { << << >>, << >>, LitEcm >>,
                    << FALLBACK_SOC, FALLBACK_OCV, LitEcm >>,
                    << GenSoc, GenOcv, GenEcm >> } :
         /\ ocv_soc = tab[1] /\ ocv_v = tab[2] /\ ecm = tab[3]
         /\ ekf = EKFSoCEstimator(1, tab[3].R0, tab[3].R1, tab[3].C1, 25)
    /\ is_ready = TRUE /\ status = "ready" /\ error = ""
    /\ dfn_last_voltage = 0 /\ dfn_last_soc = 5000 /\ dfn_last_run_ts = 0
    /\ initPc = "done" /\ initEcm = None
    /\ bg = [ b \in 1 .. MaxBg |-> BgIdle ] /\ nBg = 0
    /\ ekfLock = Free /\ soh = None
    /\ current_buffer = << >> /\ last_dfn_bg_time = 0
    /\ last_result = << >> /\ step_count = 0
    /\ pc = [ t \in Threads |-> "idle" ]
    /\ loc = [ t \in Threads |-> LocIdle ]
    /\ clock = 0
    /\ ekfBuilt = 1 /\ sohBuilt = 0 /\ initEvents = 0
    /\ requests = << >> /\ started = 0 /\ returns = << >>
    /\ ret = [ t \in Threads |-> << >> ]

\* the terminal voltage the filter itself predicts for input r, line 130
PredictedVoltage(r) ==
    LET pr == EkfPredict(ekf, Table, ecm, r.voltage_v, r.current_ma, r.dt,
                         r.temperature_c)
    IN  OcvFromSoc(Table, pr.soc_pred, r.temperature_c)
            + RoundDiv(r.current_ma * pr.ekf.R0, 1000) + pr.v_rc_pred

\* update(v_measured, current_a, dt, temp_c) with input r; ret[1] keeps the
\* input, the filter before the call, the prediction and the returned dict
EkfCall(r) ==
    /\ started < limit
    /\ LET pr == EkfPredict(ekf, Table, ecm, r.voltage_v, r.current_ma, r.dt,
                            r.temperature_c)
           u == EkfUpdate(ekf, Table, ecm, r.voltage_v, r.current_ma, r.dt,
                          r.temperature_c)
       IN  /\ ekf' = u.ekf
           /\ ret' = [ ret EXCEPT ![1] =
                         [ call |-> r, before |-> pr.ekf,
                           soc_pred |-> pr.soc_pred,
                           v_rc_pred |-> pr.v_rc_pred,
                           result |-> u.result ] ]
    /\ started' = started + 1
    /\ UNCHANGED << dfnVars, initVars, bgVars, ekfLock, soh, current_buffer,
                    last_dfn_bg_time, last_result, step_count, pc, loc,
                    envVars, clock, ekfBuilt, sohBuilt, initEvents, requests,
                    returns >>

\* update with current i and time step d, the measured voltage being equal
\* to the filter's own prediction
EkfCallMatched(i, d) ==
    /\ ekf.initialized
    /\ LET r == [ voltage_v |-> 0, current_ma |-> i, temperature_c |-> 25,
                  dt |-> d ]
       IN  EkfCall([ r EXCEPT !.voltage_v = PredictedVoltage(r) ])

NextEkf ==
    \/ \E r \in readings : EkfCall(r)
    \/ \E r \in readings : EkfCallMatched(r.current_ma, r.dt)

SpecEkf == InitEkf /\ [][NextEkf]_vars

(***************************************************************************)
(* SOHEstimator.update on its own: a sequence of at most MaxSohCalls       *)
(* updates of one estimator with inputs drawn from SohInputs, the wall     *)
(* clock advancing by the input's wait before each update.                 *)
(***************************************************************************)
\* number of update calls
MaxSohCalls == 4

\* the cycle counts (1e-6 cycles) of the estimator the sequence starts from:
\* a new cell and a cell past the capacity floor
SohAges == { 0, 700000000 }

\* soc falling and rising, discharge and charge of 50 A, a measured
\* resistance below the 0.01 Ohm threshold, at the nominal value and at
\* 1 Ohm, updates 0, 2 and 15 seconds apart
SohInputs ==
    { [ soc |-> z, current_ma |-> i, r0_measured |-> r, wait |-> w ] :
        z \in { 2000, 8000 }, i \in { -50000, 50000 },
        r \in { 50, 620, 10000 }, w \in { 0, 2, 15 } }

\* the unit state: no caller, no provider activity, a ready provider with
\* cache state c holding table and ECM tab, filter e, estimator s, inputs rs
InitUnit(lim, rs, c, tab, e, s) ==
    /\ callers = { } /\ limit = lim /\ readings = rs
    /\ dfnLock = Free /\ pybamm = TRUE /\ cache = c
    /\ ocv_soc = tab[1] /\ ocv_v = tab[2] /\ ecm = tab[3]
    /\ is_ready = TRUE /\ status = "ready" /\ error = ""
    /\ dfn_last_voltage = 0 /\ dfn_last_soc = 5000 /\ dfn_last_run_ts = 0
    /\ initPc = "done" /\ initEcm = None
    /\ bg = [ b \in 1 .. MaxBg |-> BgIdle ] /\ nBg = 0
    /\ ekfLock = Free /\ ekf = e /\ soh = s
    /\ current_buffer = << >> /\ last_dfn_bg_time = 0
    /\ last_result = << >> /\ step_count = 0
    /\ pc = [ t \in Threads |-> "idle" ]
    /\ loc = [ t \in Threads |-> LocIdle ]
    /\ clock = 0
    /\ ekfBuilt = (IF e = None THEN 0 ELSE 1)
    /\ sohBuilt = (IF s = None THEN 0 ELSE 1) /\ initEvents = 0
    /\ requests = << >> /\ started = 0 /\ returns = << >>
    /\ ret = [ t \in Threads |-> << >> ]

\* the unit state of the SOH estimator s alone
InitSohWith(lim, rs, s) ==
    InitUnit(lim, rs, "miss", << << >>, << >>, LitEcm >>, None, s)

\* the estimator of a cell that has counted c cycles with its resistance
\* at the nominal value
AgedEstimator(c) ==
    LET cap == CapacitySoh(c)
    IN  [ SOHEstimator(1, LitEcm.R0, At(0)) EXCEPT
            !.full_cycles = c, !.soh_capacity = cap,
            !.soh_combined = Clip(RoundDiv(70 * cap + 30 * 10000, 100),
                                  SohEol - 500, 10000) ]

InitSoh ==
    \E c \in SohAges : InitSohWith(MaxSohCalls, SohInputs, AgedEstimator(c))

\* update(soc, current_a, r0_measured, dt) with input r at the wall-clock
\* time r.wait after the previous call; ret[1] keeps the input, the
\* estimator before the call and the returned dict
SohCall(r) ==
    /\ started < limit
    /\ clock' = clock + r.wait
    /\ LET u == SohUpdate(soh, r.soc, r.current_ma, r.r0_measured, At(clock'))
       IN  /\ soh' = u.soh
           /\ ret' = [ ret EXCEPT ![1] =
                         [ call |-> r, before |-> soh, result |-> u.result ] ]
    /\ started' = started + 1
    /\ UNCHANGED << dfnVars, initVars, bgVars, ekfLock, ekf, current_buffer,
                    last_dfn_bg_time, last_result, step_count, pc, loc,
                    envVars, ekfBuilt, sohBuilt, initEvents, requests,
                    returns >>

NextSoh == \E r \in readings : SohCall(r)

SpecSoh == InitSoh /\ [][NextSoh]_vars

(***************************************************************************)
(* The cycle scenario: one estimator of a new cell, a resting update at    *)
(* full charge, then MaxCycles times a full discharge in equal updates     *)
(* ten seconds apart followed by one charging update back to full charge.  *)
(* The measured resistance is the nominal one throughout.                  *)
(***************************************************************************)
\* number of discharge/charge cycles simulated
MaxCycles == 100

\* the soc reported by the updates of one full discharge
DischargeSoc == << 7500, 5000, 2500, 0 >>

\* seconds between the updates of the scenario: the cap of line 100
CycleWait == 10

\* the current (mA) that moves the nominal capacity in one full discharge
CycleCurrent ==
    (CellCapacityAh * 3600 * 1000) \div (Len(DischargeSoc) * CycleWait)

\* updates per cycle, and the position of the next update within its cycle
\* (0 for the resting update)
CycleLen == Len(DischargeSoc) + 1
CyclePhase == IF started = 0 THEN 0 ELSE ((started - 1) % CycleLen) + 1
CyclesDone == IF started = 0 THEN 0 ELSE (started - 1) \div CycleLen

CycleInput(z, i) ==
    [ soc |-> z, current_ma |-> i, r0_measured |-> LitEcm.R0,
      wait |-> CycleWait ]

InitCycles ==
    InitSohWith(1 + MaxCycles * CycleLen, { },
                SOHEstimator(1, LitEcm.R0, At(0)))

\* the first update: the cell rests at full charge
CycleRest ==
    /\ CyclePhase = 0
    /\ SohCall(CycleInput(10000, 0))

\* one update of the discharge
CycleDischarge ==
    /\ CyclePhase \in 1 .. Len(DischargeSoc)
    /\ SohCall(CycleInput(DischargeSoc[CyclePhase], CycleCurrent))

\* the reversal to charging, back to full charge
CycleCharge ==
    /\ CyclePhase = CycleLen
    /\ SohCall(CycleInput(10000, -CycleCurrent))

NextCycles == CycleRest \/ CycleDischarge \/ CycleCharge

SpecCycles == InitCycles /\ [][NextCycles]_vars

(***************************************************************************)
(* ocv_from_soc followed by soc_from_ocv: the provider holds one of its    *)
(* tables, one soc and one temperature are drawn, and the round trip is    *)
(* computed once.                                                          *)
(***************************************************************************)
\* every soc of the 1e-4 grid on [0, 1]
SocGrid == 0 .. 10000

\* cell temperatures (deg C) below, at and above the 25 C reference
OcvTemps == { -20, 0, 25, 40, 60 }

\* the cache state and table of a provider: the fallback table (nothing
\* generated), a generated table, the same table loaded from the cache
OcvTables ==
    { << "miss", << << >>, << >>, LitEcm >> >>,
      << "miss", << GenSoc, GenOcv, GenEcm >> >>,
      << "hit", << GenSoc, GenOcv, GenEcm >> >> }

InitOcv ==
    \E ct \in OcvTables, z \in SocGrid, T \in OcvTemps :
        InitUnit(1, { [ soc |-> z, temperature_c |-> T ] }, ct[1], ct[2],
                 None, None)

\* soc_from_ocv(ocv_from_soc(soc, temp), temp) for input r; ret[1] keeps the
\* input, the OCV and the soc read back
OcvRoundTrip(r) ==
    /\ started < limit
    /\ LET ocv == OcvFromSoc(Table, r.soc, r.temperature_c)
       IN  ret' = [ ret EXCEPT ![1] =
                      [ call |-> r, ocv |-> ocv,
                        back |-> SocFromOcv(Table, ocv, r.temperature_c) ] ]
    /\ started' = started + 1
    /\ UNCHANGED << dfnVars, initVars, bgVars, ekfLock, ekf, soh,
                    current_buffer, last_dfn_bg_time, last_result, step_count,
                    pc, loc, envVars, clock, ekfBuilt, sohBuilt, initEvents,
                    requests, returns >>

NextOcv == \E r \in readings : OcvRoundTrip(r)

SpecOcv == InitOcv /\ [][NextOcv]_vars

(***************************************************************************)
(* The convergence scenario: a filter made with R0 = 0.05, R1 = 0.03 and   *)
(* C1 = 2000 over the fallback table, and MaxConvSteps updates with a      *)
(* constant discharge.  The cell's soc starts at 0.9 and falls by          *)
(* I dt / Q per update; the measured voltage is the table's OCV at that    *)
(* soc plus a noise of amplitude 2 mV that follows one of NoisePatterns.   *)
(***************************************************************************)
\* 3600 s of updates 2 s apart
MaxConvSteps == 1800

\* the ECM values of the scenario, as get_ecm_params returns them
ConvEcm == [R0 |-> 500, R1 |-> 300, C1 |-> 2000]

\* discharge current (mA), time step (s) and temperature of the scenario
ConvInput == [ voltage_v |-> 0, current_ma |-> 1000, temperature_c |-> 25,
               dt |-> 2 ]

\* the noise (1e-4 V) of successive measurements, repeated: none, +-2 mV
\* alternating, and +2 mV, 0, -2 mV
NoisePatterns == { << 0 >>, << 20, -20 >>, << 20, 0, -20 >> }

\* the soc of the cell after k updates: 0.9 less the charge drawn
TrueSoc(k) ==
    9000 - RoundDiv(k * ConvInput.current_ma * ConvInput.dt,
                    CellCapacityAh * 360)

InitConv ==
    \E p \in NoisePatterns :
        InitUnit(MaxConvSteps, { [ noise |-> p ] }, "miss",
                 << << >>, << >>, ConvEcm >>,
                 EKFSoCEstimator(1, ConvEcm.R0, ConvEcm.R1, ConvEcm.C1, 25),
                 None)

\* one update of the scenario: the voltage measured after the cell has
\* been discharged for one more time step
ConvStep ==
    \E p \in readings :
        LET k == started + 1
            n == p.noise[(k % Len(p.noise)) + 1]
            v == OcvFromSoc(Table, TrueSoc(k), ConvInput.temperature_c) + n
        IN  EkfCall([ ConvInput EXCEPT !.voltage_v = v ])

NextConv == ConvStep

SpecConv == InitConv /\ [][NextConv]_vars

(***************************************************************************)
(* Calls made after a warm-up: the twin has served the calls of a buffer   *)
(* of samples one after the other within the first clock second while the  *)
(* DFN-init thread had not yet run, so every one of them took the fallback *)
(* path and the last one left its result in _last_result.  WarmSteps more  *)
(* calls follow, by one caller (SpecWarm) or by every thread               *)
(* (SpecWarmRace).                                                         *)
(***************************************************************************)
\* number of calls after the warm-up, by one caller and by every thread
WarmSteps == 2
WarmRaceSteps == 2

\* n samples of reading r's current
RECURSIVE Samples(_, _)
Samples(r, n) == IF n = 0 THEN << >> ELSE Append(Samples(r, n - 1), r.current_ma)

\* the buffers of the warm-up: three samples, and a charging sample
\* followed by samples of Reading1 up to one less than the buffer's length
WarmBuffers ==
    { Samples(Reading1, MinProfile - 2),
      << Reading2.current_ma >> \o Samples(Reading1, CurrentBufferMaxLen - 2) }

\* the locals of the k-th call, a fallback call with reading r, when it
\* publishes its result
WarmLoc(r, k) ==
    LET z == SocFromOcv(GetOcvArrays(<< >>, << >>), r.voltage_v, r.temperature_c)
    IN  [ LocIdle EXCEPT
            !.voltage_v = r.voltage_v, !.current_ma = r.current_ma,
            !.temperature_c = r.temperature_c, !.dt = r.dt,
            !.path = "fallback", !.soc_ekf = z,
            !.ocv = OcvFromSoc(GetOcvArrays(<< >>, << >>), z, r.temperature_c),
            !.v_pred = r.voltage_v, !.innovation = 0, !.sigma_soc = 500,
            !.r0 = 620, !.now = At(0), !.count = k - 1,
            !.dfn_ready = FALSE, !.dfn_status = "initializing",
            !.dfn_soc = 5000, !.dfn_voltage = 0, !.res_count = k,
            !.call = r ]

\* the state after the warm-up calls that filled buffer buf, the last one
\* with reading r; callers c make n more calls
InitWarmWith(c, n, buf, r) ==
    /\ callers = c /\ limit = Len(buf) + n /\ readings = { r }
    /\ dfnLock = Free
    /\ pybamm \in BOOLEAN
    /\ cache \in IF pybamm THEN { "hit", "miss" } ELSE { "miss" }
    /\ ocv_soc = << >> /\ ocv_v = << >>
    /\ ecm = LitEcm
    /\ is_ready = FALSE /\ status = "initializing" /\ error = ""
    /\ dfn_last_voltage = 0 /\ dfn_last_soc = 5000 /\ dfn_last_run_ts = 0
    /\ initPc = "start" /\ initEcm = None
    /\ bg = [ b \in 1 .. MaxBg |-> BgIdle ] /\ nBg = 0
    /\ ekfLock = Free /\ ekf = None /\ soh = None
    /\ current_buffer = buf /\ last_dfn_bg_time = 0
    /\ last_result = Result(WarmLoc(r, Len(buf)))
    /\ step_count = Len(buf)
    /\ pc = [ t \in Threads |-> "idle" ]
    /\ loc = [ t \in Threads |-> LocIdle ]
    /\ clock = 0
    /\ ekfBuilt = 0 /\ sohBuilt = 0 /\ initEvents = 0
    /\ requests = << >> /\ started = Len(buf)
    /\ returns = [ i \in 1 .. Len(buf) |-> i ]
    /\ ret = [ t \in Threads |->
                 IF t = 1
                 THEN [ call |-> r, fresh |-> FALSE, after_fail |-> FALSE,
                        path |-> "fallback",
                        result |-> Result(WarmLoc(r, Len(buf))) ]
                 ELSE << >> ]

InitWarm ==
    \E buf \in WarmBuffers : InitWarmWith({ 1 }, WarmSteps, buf, Reading1)

SpecWarm == InitWarm /\ [][Next]_vars

\* the warm-up left one sample less than a check needs, and the DFN-init
\* thread has then run to its end, loading the table and the ECM values
\* from the cache (InitStart, InitCacheReady, InitCacheStatus); every thread
\* calls
InitWarmRace ==
    /\ callers = Threads /\ limit = MinProfile - 1 + WarmRaceSteps
    /\ readings = { Reading1 }
    /\ dfnLock = Free /\ pybamm = TRUE /\ cache = "hit"
    /\ ocv_soc = GenSoc /\ ocv_v = GenOcv /\ ecm = GenEcm
    /\ is_ready = TRUE /\ status = "ready (cache)" /\ error = ""
    /\ dfn_last_voltage = 0 /\ dfn_last_soc = 5000 /\ dfn_last_run_ts = 0
    /\ initPc = "done" /\ initEcm = None
    /\ bg = [ b \in 1 .. MaxBg |-> BgIdle ] /\ nBg = 0
    /\ ekfLock = Free /\ ekf = None /\ soh = None
    /\ current_buffer = Samples(Reading1, MinProfile - 1)
    /\ last_dfn_bg_time = 0
    /\ last_result = Result(WarmLoc(Reading1, MinProfile - 1))
    /\ step_count = MinProfile - 1
    /\ pc = [ t \in Threads |-> "idle" ]
    /\ loc = [ t \in Threads |-> LocIdle ]
    /\ clock = 0
    /\ ekfBuilt = 0 /\ sohBuilt = 0 /\ initEvents = 0
    /\ requests = << >> /\ started = MinProfile - 1
    /\ returns = [ i \in 1 .. MinProfile - 1 |-> i ]
    /\ ret = [ t \in Threads |->
                 IF t = 1
                 THEN [ call |-> Reading1, fresh |-> FALSE,
                        after_fail |-> FALSE, path |-> "fallback",
                        result |-> Result(WarmLoc(Reading1, MinProfile - 1)) ]
                 ELSE << >> ]

\* the steps of the calls, all of which find the provider ready, within
\* one clock second and before the threads of the checks they start are
\* scheduled
NextWarmRace ==
    \E t \in Threads :
        \/ \E r \in readings : StepBegin(t, r)
        \/ LazyInit(t) \/ LazyGetEcm(t) \/ LazyMakeEkf(t)
        \/ LazyMakeSoh(t, clock)
        \/ EkfRead(t) \/ EkfWrite(t)
        \/ SohRead(t, clock) \/ SohWrite(t)
        \/ ThrottleCheck(t, clock) \/ Request(t)
        \/ CountLoad(t) \/ CountStore(t)
        \/ PackReady(t) \/ PackStatus(t) \/ PackSoc(t) \/ PackVoltage(t)
        \/ PackCount(t) \/ Publish(t)

SpecWarmRace == InitWarmRace /\ [][NextWarmRace]_vars

(***************************************************************************)
(* The covariance of one EKF update in exact arithmetic.  A covariance is  *)
(* a record [P, den]: the matrix << P[1], P[2], P[3], P[4] >> / den in     *)
(* row order.  The filter holds a symmetric positive-semi-definite         *)
(* covariance over a grid of small integers (the constructor's             *)
(* diag(0.01, 0.001) and the bootstrap's diag(0.005, 0.001) among them, up *)
(* to the unit), process noise Q, measurement noise R > 0; one update with *)
(* alpha = n / d and OCV slope h is applied.                               *)
(***************************************************************************)
\* symmetric positive-semi-definite: equal off-diagonal entries,
\* non-negative diagonal and determinant
SymPsd(c) ==
    /\ c.den > 0
    /\ c.P[2] = c.P[3]
    /\ c.P[1] >= 0 /\ c.P[4] >= 0
    /\ c.P[1] * c.P[4] - c.P[2] * c.P[3] >= 0

\* the covariances a filter starts an update with
CovGrid ==
    { c \in [ P : { << a, b, b, d >> :
                      a \in { 0, 1, 2, 5, 10 }, b \in -3 .. 3,
                      d \in 0 .. 2 },
              den : { 1 } ] : SymPsd(c) }

\* alpha = exp(-dt / tau1) as n / d (0 when dt / tau1 is beyond the range
\* of exp), and the slope docv_dsoc returns
CovInputs ==
    { [ alpha |-> a, h |-> h ] :
        a \in { << 0, 1 >>, << 1, 2 >> }, h \in { -2, 0, 1, 3 } }

\* lines 121-127: P_pred = F P F^T + Q with F = diag(1, alpha)
CovPredict(c, alpha, Q) ==
    LET n == alpha[1]
        d == alpha[2]
    IN  [ P |-> << c.P[1] * d * d + Q[1] * c.den * d * d,
                   c.P[2] * n * d,
                   c.P[3] * n * d,
                   c.P[4] * n * n + Q[2] * c.den * d * d >>,
          den |-> c.den * d * d ]

\* S without the measurement noise
InnovationCov_NoNoise(pp, h, R) ==
    h * h * pp.P[1] + h * (pp.P[2] + pp.P[3]) + pp.P[4]

\* lines 135-139: S = H P_pred H^T + R_noise with H = [h, 1], times
\* P_pred's denominator
InnovationCov(pp, h, R) ==
    h * h * pp.P[1] + h * (pp.P[2] + pp.P[3]) + pp.P[4] + R * pp.den

\* the update with twice the Kalman gain
CovCorrect_DoubleGain(pp, h, R) ==
    LET Sn == InnovationCov(pp, h, R)
        k0 == 2 * (h * pp.P[1] + pp.P[2])
        k1 == 2 * (h * pp.P[3] + pp.P[4])
    IN  [ P |-> << (Sn - k0 * h) * pp.P[1] - k0 * pp.P[3],
                   (Sn - k0 * h) * pp.P[2] - k0 * pp.P[4],
                   (Sn - k1) * pp.P[3] - k1 * h * pp.P[1],
                   (Sn - k1) * pp.P[4] - k1 * h * pp.P[2] >>,
          den |-> Sn * pp.den ]

\* lines 140-144: K = P_pred H^T / S and P = (I - K H) P_pred; K = k / Sn,
\* so P is the matrix below over Sn times P_pred's denominator
CovCorrect(pp, h, R) ==
    LET Sn == InnovationCov(pp, h, R)
        k0 == h * pp.P[1] + pp.P[2]
        k1 == h * pp.P[3] + pp.P[4]
    IN  [ P |-> << (Sn - k0 * h) * pp.P[1] - k0 * pp.P[3],
                   (Sn - k0 * h) * pp.P[2] - k0 * pp.P[4],
                   (Sn - k1) * pp.P[3] - k1 * h * pp.P[1],
                   (Sn - k1) * pp.P[4] - k1 * h * pp.P[2] >>,
          den |-> Sn * pp.den ]

\* a filter with covariance c, process noise diag(Q) and measurement noise
\* R, in the unit of c
InitCov ==
    \E c \in CovGrid, Q \in { << 1, 1 >>, << 2, 1 >> }, R \in { 1, 3 } :
        InitUnit(1, CovInputs, "miss", << << >>, << >>, LitEcm >>,
                 [ id |-> 1, cov |-> c, Q_noise |-> Q, R_noise |-> R ], None)

\* the covariance part of update with input r; ret[1] keeps the input, the
\* filter before the call, P_pred and S (over P_pred's denominator)
CovUpdate(r) ==
    /\ started < limit
    /\ LET pp == CovPredict(ekf.cov, r.alpha, ekf.Q_noise)
       IN  /\ ekf' = [ ekf EXCEPT !.cov = CovCorrect(pp, r.h, ekf.R_noise) ]
           /\ ret' = [ ret EXCEPT ![1] =
                         [ call |-> r, before |-> ekf, pred |-> pp,
                           S |-> InnovationCov(pp, r.h, ekf.R_noise) ] ]
    /\ started' = started + 1
    /\ UNCHANGED << dfnVars, initVars, bgVars, ekfLock, soh, current_buffer,
                    last_dfn_bg_time, last_result, step_count, pc, loc,
                    envVars, clock, ekfBuilt, sohBuilt, initEvents, requests,
                    returns >>

NextCov == \E r \in readings : CovUpdate(r)

SpecCov == InitCov /\ [][NextCov]_vars

(***************************************************************************)
(* The life of one EKF instance beside its provider: construction from the *)
(* provider's ECM values, the provider's initialisation replacing them     *)
(* (extracted from the DFN model or loaded from the cache file, whose      *)
(* values are taken as they are), and updates.                             *)
(***************************************************************************)
\* the literal values, the extracted values, and values of a cache file
\* with R1 * C1 = 0.5 s
LifeEcms == { LitEcm, GenEcm, [ R0 |-> 500, R1 |-> 50, C1 |-> 100 ] }

InitLife ==
    \E m \in LifeEcms :
        InitUnit(MaxEkfCalls, EkfInputs, "miss",
                 << FALLBACK_SOC, FALLBACK_OCV, m >>, None, None)

\* battery_twin.py lines 100-108: the filter is made from get_ecm_params()
LifeConstruct ==
    /\ ekf = None
    /\ ekf' = EKFSoCEstimator(1, ecm.R0, ecm.R1, ecm.C1, 25)
    /\ ekfBuilt' = ekfBuilt + 1
    /\ UNCHANGED << dfnVars, initVars, bgVars, ekfLock, soh, current_buffer,
                    last_dfn_bg_time, last_result, step_count, pc, loc,
                    envVars, clock, sohBuilt, initEvents, requests, started,
                    returns, ret >>

\* _initialize stores the ECM values m, once
LifeRefresh(m) ==
    /\ initEvents = 0 /\ m # ecm
    /\ ecm' = m
    /\ initEvents' = 1
    /\ UNCHANGED << dfnLock, pybamm, cache, ocv_soc, ocv_v, is_ready, status,
                    error, dfn_last_voltage, dfn_last_soc, dfn_last_run_ts,
                    initVars, bgVars, twinVars, pc, loc, envVars, clock,
                    ekfBuilt, sohBuilt, requests, started, returns, ret >>

\* update with input r; ret[1] keeps the input, the filter as the call
\* found it, the provider's values at the call, the filter after line 108
\* and the returned dict
LifeUpdate(r) ==
    /\ ekf # None /\ started < limit
    /\ LET pr == EkfPredict(ekf, Table, ecm, r.voltage_v, r.current_ma, r.dt,
                            r.temperature_c)
           u == EkfUpdate(ekf, Table, ecm, r.voltage_v, r.current_ma, r.dt,
                          r.temperature_c)
       IN  /\ ekf' = u.ekf
           /\ ret' = [ ret EXCEPT ![1] =
                         [ call |-> r, prior |-> ekf, ecm |-> ecm,
                           before |-> pr.ekf, result |-> u.result ] ]
    /\ started' = started + 1
    /\ UNCHANGED << dfnVars, initVars, bgVars, ekfLock, soh, current_buffer,
                    last_dfn_bg_time, last_result, step_count, pc, loc,
                    envVars, clock, ekfBuilt, sohBuilt, initEvents, requests,
                    returns >>

NextLife ==
    \/ LifeConstruct
    \/ \E m \in LifeEcms : LifeRefresh(m)
    \/ \E r \in readings : LifeUpdate(r)

SpecLife == InitLife /\ [][NextLife]_vars

(***************************************************************************)
(* Cycle counting with soc moving by less than, exactly and more than the  *)
(* threshold of 0.001: a new estimator, soc of 0.2, 0.201, 0.2011 and 0.8, *)
(* discharge and charge of 50 A, updates 2 and 15 seconds apart.           *)
(***************************************************************************)
InitFlush ==
    InitSohWith(MaxSohCalls,
                { [ soc |-> z, current_ma |-> i, r0_measured |-> 620,
                    wait |-> w ] :
                    z \in { 2000, 2010, 2011, 8000 },
                    i \in { -50000, 50000 }, w \in { 2, 15 } },
                SOHEstimator(1, LitEcm.R0, At(0)))

SpecFlush == InitFlush /\ [][NextSoh]_vars

(***************************************************************************)
(* A long run: wait_for_ready has returned (the table and the ECM values   *)
(* came from the cache), and one caller makes MaxBufferSteps calls one     *)
(* after the other within one clock second, the k-th with a current of     *)
(* 1000 + k - 1 mA, so that every sample in the buffer tells its call.     *)
(* The thread of the check requested by the fifth call is not scheduled.   *)
(***************************************************************************)
MaxBufferSteps == 202

InitBuffers ==
    /\ callers = { 1 } /\ limit = MaxBufferSteps /\ readings = { Reading1 }
    /\ dfnLock = Free /\ pybamm = TRUE /\ cache = "hit"
    /\ ocv_soc = GenSoc /\ ocv_v = GenOcv /\ ecm = GenEcm
    /\ is_ready = TRUE /\ status = "ready (cache)" /\ error = ""
    /\ dfn_last_voltage = 0 /\ dfn_last_soc = 5000 /\ dfn_last_run_ts = 0
    /\ initPc = "done" /\ initEcm = None
    /\ bg = [ b \in 1 .. MaxBg |-> BgIdle ] /\ nBg = 0
    /\ ekfLock = Free /\ ekf = None /\ soh = None
    /\ current_buffer = << >> /\ last_dfn_bg_time = 0
    /\ last_result = << >> /\ step_count = 0
    /\ pc = [ t \in Threads |-> "idle" ]
    /\ loc = [ t \in Threads |-> LocIdle ]
    /\ clock = 0
    /\ ekfBuilt = 0 /\ sohBuilt = 0 /\ initEvents = 0
    /\ requests = << >> /\ started = 0 /\ returns = << >>
    /\ ret = [ t \in Threads |-> << >> ]

SpecBuffers ==
    InitBuffers
    /\ [][\E t \in callers :
            \/ \E r \in readings :
                  StepBegin(t, [ r EXCEPT !.current_ma = 1000 + started ])
            \/ LazyInit(t) \/ LazyGetEcm(t) \/ LazyMakeEkf(t)
            \/ LazyMakeSoh(t, clock)
            \/ EkfRead(t) \/ EkfWrite(t)
            \/ SohRead(t, clock) \/ SohWrite(t)
            \/ ThrottleCheck(t, clock) \/ Request(t)
            \/ CountLoad(t) \/ CountStore(t)
            \/ PackReady(t) \/ PackStatus(t) \/ PackSoc(t)
            \/ PackVoltage(t) \/ PackCount(t) \/ Publish(t)]_vars

(***************************************************************************)
(* Two SOH estimators made at the same time and driven side by side: the   *)
(* same soc, current and resistance at the same wall-clock times, but dt   *)
(* arguments of their own.  The first is soh; the second and its returned  *)
(* dict are kept in ret[2].                                                *)
(***************************************************************************)
DtCall(r, dt_a, dt_b) ==
    /\ started < limit
    /\ clock' = clock + r.wait
    /\ LET other == IF DOMAIN ret[2] # { } THEN ret[2].estimator
                    ELSE SOHEstimator(1, LitEcm.R0, At(0))
           a == SohUpdateDt(soh, r.soc, r.current_ma, r.r0_measured, dt_a,
                            At(clock'))
           b == SohUpdateDt(other, r.soc, r.current_ma, r.r0_measured, dt_b,
                            At(clock'))
       IN  /\ soh' = a.soh
           /\ ret' = [ ret EXCEPT
                         ![1] = [ call |-> r, dt |-> dt_a, before |-> soh,
                                  result |-> a.result ],
                         ![2] = [ estimator |-> b.soh, dt |-> dt_b,
                                  result |-> b.result ] ]
    /\ started' = started + 1
    /\ UNCHANGED << dfnVars, initVars, bgVars, ekfLock, ekf, current_buffer,
                    last_dfn_bg_time, last_result, step_count, pc, loc,
                    envVars, ekfBuilt, sohBuilt, initEvents, requests,
                    returns >>

SpecDt ==
    InitFlush
    /\ [][\E r \in readings, dt_a, dt_b \in { 0, 2, 30 } :
            DtCall(r, dt_a, dt_b)]_vars

(***************************************************************************)
(* Properties.                                                             *)
(***************************************************************************)
\* caller t has a returned result
Returned(t) == DOMAIN ret[t] # { }

\* positions of a call after the guarded lazy-init block
AfterLazy ==
    { "ekf", "ekf_wr", "fb_soc", "fb_ocv", "soh", "soh_wr", "throttle",
      "request", "count", "count_store", "pk_ready", "pk_status", "pk_soc",
      "pk_voltage", "pk_count", "publish" }

\* positions of a call after the SOH update or its absence
AfterSoh ==
    { "throttle", "request", "count", "count_store", "pk_ready", "pk_status",
      "pk_soc", "pk_voltage", "pk_count", "publish" }

\* C1: under concurrent step calls the EKF, the SOH estimator and the log
\* line 'EKF + SOH estimator initialised' are each made at most once, and
\* exactly once as soon as a call has left the lazy-init block having found
\* the provider ready there
C1_ConstructedOnce ==
    /\ ekfBuilt <= 1 /\ sohBuilt <= 1 /\ initEvents <= 1
    /\ \A t \in Threads :
         (pc[t] \in AfterLazy /\ loc[t].lazy_ready)
             => (ekfBuilt = 1 /\ sohBuilt = 1 /\ initEvents = 1)

\* two overlapping calls have both left the lazy-init block after readiness
C1_Witness ==
    /\ \A t \in Threads : pc[t] \in AfterLazy /\ loc[t].lazy_ready
    /\ initEvents = 1

\* C2: a call that found the EKF present (took the EKF path) also found the
\* SOH estimator present and ran its update, and a call that found the EKF
\* absent found the SOH estimator absent
C2_NoHalfInit ==
    \A t \in Threads :
        pc[t] \in AfterSoh
            => ((loc[t].path = "ekf") <=> (DOMAIN loc[t].soh_result # { }))

\* C3: once the pair exists neither estimator is made absent or replaced,
\* and a call that begins afterwards takes the EKF path, never the fallback
C3_OneWay ==
    /\ [][ /\ ekf # None => (ekf' # None /\ ekf'.id = ekf.id)
           /\ soh # None => (soh' # None /\ soh'.id = soh.id) ]_vars
    /\ [](\A t \in Threads :
            /\ loc[t].fresh => loc[t].path # "fallback"
            /\ (pc[t] \in AfterSoh /\ loc[t].fresh) => loc[t].path = "ekf"
            /\ (Returned(t) /\ ret[t].fresh) => ret[t].path = "ekf")

\* a call begun after the pair existed has returned, while another call has
\* run the filter too
C3_Witness ==
    /\ \E t \in Threads : Returned(t) /\ ret[t].fresh /\ ret[t].path = "ekf"
    /\ ekf # None /\ ekf.initialized /\ step_count >= 2

\* C4: while the provider is not ready a returned result has
\* soc = soc_from_ocv(voltage, temperature), v_predicted = the measured
\* voltage, innovation 0, sigma_soc 0.05, soh = soh_capacity =
\* soh_resistance = 100, full_cycles 0, and neither estimator has been made
C4_Fallback ==
    ~is_ready =>
        /\ ekf = None /\ soh = None /\ ekfBuilt = 0 /\ sohBuilt = 0
        /\ \A t \in Threads :
             Returned(t) =>
                LET r == ret[t].result
                    c == ret[t].call
                IN  /\ r.soc_ekf \in
                          { SocFromOcv(<< FALLBACK_SOC, FALLBACK_OCV >>,
                                       c.voltage_v, c.temperature_c),
                            SocFromOcv(Table, c.voltage_v, c.temperature_c) }
                    /\ r.v_measured = c.voltage_v
                    /\ r.v_predicted = r.v_measured
                    /\ r.innovation = 0
                    /\ r.sigma_soc = 500
                    /\ r.soh = 10000 /\ r.soh_capacity = 10000
                    /\ r.soh_resistance = 10000
                    /\ r.full_cycles = 0
                    /\ ~r.dfn_ready

\* before readiness a call with the second reading (3.9 V at 30 degrees) has
\* returned soc 0.7675, after a call with the first one
C4_Witness ==
    /\ ~is_ready /\ Returned(1) /\ ret[1].call = Reading2
    /\ ret[1].result.soc_ekf = 7675
    /\ ret[1].result.step_count = 2
    /\ Len(current_buffer) = 2 /\ current_buffer[1] = Reading1.current_ma

\* C5: every returned result, and the last result kept, has the same
\* complete set of fields, before readiness, after it, and after a failed
\* high-fidelity check
C5_CompleteRecord ==
    /\ \A t \in Threads : Returned(t) => DOMAIN ret[t].result = ResultFields
    /\ DOMAIN last_result \in { { }, ResultFields }

\* a call begun after a failed high-fidelity check has returned, on the EKF
\* path
C5_Witness ==
    /\ Returned(1) /\ ret[1].after_fail /\ ret[1].path = "ekf"
    /\ ret[1].result.dfn_ready

\* C6: the request times of any two high-fidelity check requests differ by
\* more than dfn_bg_interval_s
C6_Throttle ==
    \A i \in DOMAIN requests : \A j \in DOMAIN requests :
        i < j => requests[j] - requests[i] > DfnBgInterval

\* two requests have been made
C6_Witness == Len(requests) = 2 /\ nBg = 2

\* caller t waits for the provider's lock
WaitsForDfn(t) ==
    /\ dfnLock # Free
    /\ \/ pc[t] \in { "ecm", "fb_soc", "fb_ocv", "ekf_wr" }
       \/ pc[t] = "ekf" /\ ekf # None

\* the holder of the provider's lock is at a point where it only has to
\* release it: it waits for nothing and computes nothing
Releasing ==
    \/ dfnLock = InitThread
         /\ initPc \in { "cache_status", "publish_status", "fallback_status" }
    \/ \E b \in 1 .. MaxBg : dfnLock = BgThread(b) /\ bg[b].pc = "write_soc"

\* C7: requesting a check does not block the step call: the call goes on
\* as soon as the DFN-bg thread is started, before that thread has run; a
\* DFN-bg thread holds the provider's lock only while it writes its results,
\* never while it simulates; so a call that waits for the lock waits for a
\* holder that is about to release it, however long a simulation runs
C7_NeverBlocks ==
    /\ [][ \A t \in Threads :
             (pc[t] = "request" /\ pc'[t] # "request")
                 => (/\ pc'[t] = "count"
                     /\ nBg' = nBg + 1
                     /\ bg'[nBg'].pc = "start") ]_vars
    /\ [](\A b \in 1 .. MaxBg :
            dfnLock = BgThread(b) => bg[b].pc = "write_soc")
    /\ [](\A t \in Threads : WaitsForDfn(t) => Releasing)

\* the call that made the request has returned and the next call has run
\* the filter while the simulation is still running
C7_Witness ==
    /\ \E b \in 1 .. MaxBg : bg[b].pc = "solve"
    /\ Len(requests) = 1 /\ Len(returns) = MinProfile
    /\ pc[1] = "soh" /\ loc[1].path = "ekf"

\* no high-fidelity check has published a value
NonePublished ==
    \A b \in 1 .. MaxBg : bg[b].outcome # "ok" /\ bg[b].pc # "write_soc"

\* C8: a failing high-fidelity check leaves the published (voltage, soc,
\* timestamp), the readiness flag, the OCV table and the ECM values as they
\* were, and later calls return the stale values
C8_FailureSwallowed ==
    /\ [][ (\E b \in 1 .. MaxBg :
               bg[b].outcome # "failed" /\ bg'[b].outcome = "failed")
           => UNCHANGED << dfn_last_voltage, dfn_last_soc, dfn_last_run_ts,
                           is_ready, ocv_soc, ocv_v, ecm >> ]_vars
    /\ [](\A t \in Threads :
            (Returned(t) /\ ret[t].after_fail /\ NonePublished)
                => (/\ ret[t].result.dfn_soc = 5000
                    /\ ret[t].result.dfn_voltage = 0
                    /\ ret[t].result.dfn_ready))

\* a call begun after a failed check has returned, nothing ever published
C8_Witness ==
    /\ Returned(1) /\ ret[1].after_fail /\ NonePublished
    /\ ret[1].result.dfn_soc = 5000

\* C9: with serialized calls the n-th call returns step_count = n
C9_StepCount ==
    /\ \A i \in DOMAIN returns : returns[i] = i
    /\ Returned(1) => ret[1].result.step_count = started
    /\ (pc[1] = "idle") => step_count = started

\* the sixth call has returned
C9_Witness == Len(returns) = MaxSteps /\ ret[1].result.step_count = MaxSteps

\* C10: no update of the step counter is lost under concurrent calls: once
\* N calls have completed the counter is N and the N results carry N
\* distinct step_count values
C10_NoLostUpdate ==
    (\A t \in Threads : pc[t] = "idle")
        => /\ step_count = started
           /\ Cardinality({ returns[i] : i \in DOMAIN returns }) = Len(returns)

\* positions at which step() reads a field of the provider directly
\* (lines 181-184), not through one of its locked methods
DirectReads == { "pk_ready", "pk_status", "pk_soc", "pk_voltage" }

\* C11: every read of the provider's shared state by a step call is made
\* under the provider's lock: no call reads a provider field while another
\* thread holds that lock
C11_LockedAccess ==
    [][ \A t \in Threads :
          (pc[t] \in DirectReads /\ pc'[t] # pc[t]) => dfnLock = Free ]_vars

\* C12: after any sequence of EKF updates, with currents of 50 A in either
\* direction and measured voltages outside every table, the filter's soc
\* state, the soc it returns and the predicted soc are within [0, 1]
C12_SocClamped ==
    /\ ekf.x[1] >= 0 /\ ekf.x[1] <= 10000
    /\ Returned(1) =>
          /\ ret[1].result.soc >= 0 /\ ret[1].result.soc <= 10000
          /\ ret[1].soc_pred >= 0 /\ ret[1].soc_pred <= 10000
          /\ ret[1].result.soc = ekf.x[1]

\* after three updates the prediction was held at 0 by the clamp (a 50 A
\* discharge from an empty cell) and the correction at the upper end
C12_Witness ==
    /\ started = MaxEkfCalls /\ Returned(1)
    /\ ret[1].call.current_ma = 50000 /\ ret[1].before.x[1] < 1000
    /\ ret[1].soc_pred = 0
    /\ ret[1].call.voltage_v = 45000 /\ ret[1].result.soc = 10000

\* C15: an EKF update whose measured voltage equals the filter's own
\* predicted terminal voltage reports innovation 0 and leaves the state at
\* the process-model prediction: soc = clamp(soc_prev - eta * current * dt /
\* capacity_As, 0, 1) and v_rc = v_rc_pred
C15_ZeroInnovation ==
    (Returned(1) /\ ret[1].call.voltage_v = ret[1].result.v_predicted)
        => /\ ret[1].result.innovation = 0
           /\ ret[1].result.soc =
                 Clip(ret[1].before.x[1]
                          - RoundDiv(Eta * ret[1].call.current_ma
                                         * ret[1].call.dt, 10 * Q_As),
                      0, 10000)
           /\ ret[1].result.v_rc = ret[1].v_rc_pred
           /\ ekf.x = << ret[1].result.soc, ret[1].result.v_rc >>

\* a matched update under a 50 A charge has moved soc and v_rc off the state
\* before the call
C15_Witness ==
    /\ Returned(1) /\ ret[1].call.voltage_v = ret[1].result.v_predicted
    /\ ret[1].call.current_ma = -50000
    /\ ret[1].result.soc > ret[1].before.x[1]
    /\ ret[1].result.v_rc # ret[1].before.x[2]

\* C13: after every SOH update the stored and the returned soh_capacity,
\* soh_resistance and soh_combined lie in [soh_eol - 5, 100], however many
\* cycles were counted and however large the measured resistance is.
C13_SohClamped ==
    (soh # None /\ Returned(1) /\ "before" \in DOMAIN ret[1]
        /\ "soc" \in DOMAIN ret[1].call) =>
        \A v \in { soh.soh_capacity, soh.soh_resistance, soh.soh_combined,
                    ret[1].result.soh_capacity, ret[1].result.soh_resistance,
                    ret[1].result.soh } :
            SohEol - 500 <= v /\ v <= 10000

\* an update that leaves the capacity-based and the resistance-based SOH at
\* the floor
C13_Witness ==
    /\ soh # None /\ Returned(1) /\ "before" \in DOMAIN ret[1]
    /\ "soc" \in DOMAIN ret[1].call
    /\ soh.soh_capacity = SohEol - 500
    /\ soh.soh_resistance = SohEol - 500
    /\ soh.full_cycles > 625000000

\* C14: across SOH updates the cycle count and the throughput, stored and
\* returned, never decrease, whatever the soc trajectory and the signs of the
\* current.
C14_Monotone ==
    [][ (soh # None /\ soh' # None) =>
          /\ soh'.full_cycles >= soh.full_cycles
          /\ soh'.total_mas_throughput >= soh.total_mas_throughput
          /\ (Returned(1) /\ "before" \in DOMAIN ret[1]
                 /\ "soc" \in DOMAIN ret[1].call /\ ret' # ret) =>
                /\ ret'[1].result.full_cycles >= ret[1].result.full_cycles
                /\ ret'[1].result.ah_throughput
                       >= ret[1].result.ah_throughput ]_vars

\* a charging update (negative current) that counted a cycle and moved
\* charge
C14_Witness ==
    /\ soh # None /\ Returned(1) /\ "before" \in DOMAIN ret[1]
    /\ "soc" \in DOMAIN ret[1].call
    /\ ret[1].call.current_ma < 0
    /\ soh.full_cycles > ret[1].before.full_cycles
    /\ soh.total_mas_throughput > ret[1].before.total_mas_throughput

\* an update of the SOH estimator has returned
SohReturned ==
    /\ soh # None /\ Returned(1) /\ "before" \in DOMAIN ret[1]
    /\ "soc" \in DOMAIN ret[1].call

\* C17: after every SOH update soh_capacity is 100 - full_cycles * 0.04
\* clamped to [soh_eol - 5, 100]; a full discharge is counted as one cycle
\* by the charging update that follows it, and after 100 such cycles
\* soh_capacity is 96.0 within 0.1.
C17_CapacityFade ==
    SohReturned =>
        /\ soh.soh_capacity =
               Clip(10000 - RoundDiv(soh.full_cycles * 4, 1000000),
                    SohEol - 500, 10000)
        /\ ret[1].result.soh_capacity = soh.soh_capacity
        /\ (CyclePhase = 1 /\ ret[1].call.current_ma < 0) =>
               soh.full_cycles = CyclesDone * 1000000
        /\ (started = 1 + 100 * CycleLen) =>
               Abs(soh.soh_capacity - 9600) <= 10

\* the charging update that ends the hundredth cycle has returned
C17_Witness ==
    /\ SohReturned /\ started = 1 + 100 * CycleLen
    /\ ret[1].call.current_ma < 0 /\ ret[1].call.soc = 10000
    /\ ret[1].before.full_cycles = 99000000
    /\ soh.full_cycles = 100000000
    /\ soh.soh_capacity = 9600

\* C18 as stated: in the cycle scenario the returned rul_cycles is
\* (soh_capacity - 80) / 0.04 (within 2.5 cycles, the 0.1 tolerance of
\* soh_capacity), 400 cycles after the hundredth cycle.
C18_RulFromCapacity ==
    SohReturned =>
        Abs(ret[1].result.rul_cycles
              - RoundDiv((soh.soh_capacity - 8000) * 100, 40)) <= 25

\* C18 amended: in the cycle scenario the returned rul_cycles is
\* (soh_combined - 80) / 0.04 with soh_combined = 0.7 soh_capacity
\* + 0.3 soh_resistance and soh_resistance = 100: 430 cycles after the
\* hundredth cycle, when soh_capacity is 96.0.
C18_RulFromCombined ==
    SohReturned =>
        /\ soh.soh_resistance = 10000
        /\ soh.soh_combined = RoundDiv(70 * soh.soh_capacity + 30 * 10000, 100)
        /\ ret[1].result.rul_cycles
              = RoundDiv((soh.soh_combined - 8000) * 100, 40)
        /\ (started = 1 + 100 * CycleLen) => ret[1].result.rul_cycles = 4300

\* the update that ends the hundredth cycle has returned 430 cycles with
\* soh_capacity 96.0 and soh_combined 97.2
C18_Witness ==
    /\ SohReturned /\ started = 1 + 100 * CycleLen
    /\ ret[1].call.r0_measured = LitEcm.R0
    /\ soh.soh_capacity = 9600 /\ soh.soh_combined = 9720
    /\ ret[1].result.rul_cycles = 4300

C20_StampOnRequest ==
    [][ /\ (nBg' # nBg) =>
              \E t \in Threads :
                  /\ pc[t] = "request" /\ pc'[t] = "count"
                  /\ last_dfn_bg_time' = loc[t].now
                  /\ bg'[nBg'].pc = "start"
        /\ (nBg' = nBg) => last_dfn_bg_time' = last_dfn_bg_time ]_vars

\* the first check has failed, the second has been requested and has not
\* begun: the throttle time is the time of the second request
C20_Witness ==
    /\ nBg = 2 /\ bg[1].outcome = "failed" /\ bg[2].pc = "start"
    /\ last_dfn_bg_time = requests[2] /\ requests[2] > requests[1]

\* C19: at the end of the convergence scenario the filter's soc is within 2
\* percentage points of the soc of the cell.
C19_Converges ==
    (ekf # None /\ started = MaxConvSteps /\ Returned(1)
        /\ "soc_pred" \in DOMAIN ret[1]) =>
        /\ Abs(ekf.x[1] - TrueSoc(started)) <= 200
        /\ Abs(ret[1].result.soc - TrueSoc(started)) <= 200

\* C21: a call asks for a high-fidelity check exactly when, at its throttle
\* test, more than the interval has passed since the last request, the
\* buffer holds at least 5 samples and the provider is ready; the profile
\* handed over is the buffer at that moment, at most the 60 newest samples in
\* arrival order ending with the call's own sample, and no later step
\* changes it while the check runs.
C21_RequestGuard ==
    [][ /\ \A t \in Threads :
              /\ (pc[t] = "throttle" /\ pc'[t] # "throttle") =>
                    /\ pc'[t] \in { "request", "count" }
                    /\ (pc'[t] = "request") <=>
                          /\ loc'[t].now - last_dfn_bg_time > DfnBgInterval
                          /\ Len(current_buffer) >= 5
                          /\ is_ready
                    /\ nBg' = nBg
              /\ (pc[t] = "idle" /\ pc'[t] # "idle") =>
                    LET all == Append(current_buffer, loc'[t].current_ma)
                    IN  current_buffer' =
                            IF Len(all) > 60 THEN Tail(all) ELSE all
        /\ (nBg' # nBg) =>
              \E t \in Threads :
                  /\ pc[t] = "request" /\ nBg' = nBg + 1
                  /\ bg'[nBg'].profile = current_buffer
                  /\ Len(current_buffer) \in 5 .. 60
                  /\ current_buffer[Len(current_buffer)] = loc[t].current_ma
        /\ \A b \in 1 .. MaxBg :
              (bg[b].profile # << >> /\ bg'[b].pc # "done") =>
                  bg'[b].profile = bg[b].profile ]_vars

\* the second check was asked for with a full buffer from which the oldest
\* sample, the charging one, had been dropped, the first check still running
\* with its own 60 samples, the charging one among them
C21_Witness ==
    /\ nBg = 2 /\ bg[2].pc = "start" /\ Len(bg[2].profile) = 60
    /\ bg[2].profile[1] = Reading1.current_ma
    /\ bg[1].pc # "done" /\ Len(bg[1].profile) = 60
    /\ bg[1].profile[1] = Reading2.current_ma
    /\ requests[2] - requests[1] > DfnBgInterval

\* C22: under overlapping calls the throttle still admits a single request:
\* of the calls that overlap while the interval has expired at most one
\* starts a check, so the request times of any two checks are more than the
\* interval apart.
C22_SingleRequest ==
    \A i \in DOMAIN requests : \A j \in DOMAIN requests :
        i # j => Abs(requests[j] - requests[i]) > DfnBgInterval

\* C23: the EKF and SOH updates of concurrent calls do not interleave: once
\* the two overlapping calls with the same reading have returned, the filter
\* and the SOH estimator are in the state that the two calls made one after
\* the other (in either order, the readings being equal) leave.
C23_Serializable ==
    LET r == Reading1
        e0 == EKFSoCEstimator(1, ecm.R0, ecm.R1, ecm.C1, r.temperature_c)
        u1 == EkfUpdate(e0, Table, ecm, r.voltage_v, r.current_ma, r.dt,
                        r.temperature_c)
        u2 == EkfUpdate(u1.ekf, Table, ecm, r.voltage_v, r.current_ma, r.dt,
                        r.temperature_c)
        s0 == SOHEstimator(1, ecm.R0, At(clock))
        s1 == SohUpdate(s0, u1.result.soc, r.current_ma, u1.result.R0,
                        At(clock))
        s2 == SohUpdate(s1.soh, u2.result.soc, r.current_ma, u2.result.R0,
                        At(clock))
    IN  (/\ \A t \in Threads : pc[t] = "idle" /\ Returned(t)
         /\ started = limit /\ ekfBuilt = 1 /\ sohBuilt = 1
         /\ readings = { r } /\ Len(returns) = started)
            => (ekf = u2.ekf /\ soh = s2.soh)

\* C25: the covariance is symmetric and positive-semi-definite before and
\* after every update P = (I - K H) P_pred, and so is P_pred; P[0,0] >= 0.
C25_CovSymPsd ==
    /\ SymPsd(ekf.cov)
    /\ (Returned(1) /\ "pred" \in DOMAIN ret[1]) =>
          /\ SymPsd(ret[1].before.cov) /\ SymPsd(ret[1].pred)
          /\ ekf.cov.P[1] >= 0

\* an update with slope 3 has brought a covariance with correlated entries
\* down: P[0,0] after the update is below P_pred[0,0] and P[0,1] is not 0
C25_Witness ==
    /\ Returned(1) /\ "pred" \in DOMAIN ret[1]
    /\ ret[1].call.h = 3 /\ ret[1].before.cov.P[2] # 0
    /\ ekf.cov.P[2] # 0 /\ ekf.cov.P[2] = ekf.cov.P[3]
    /\ ekf.cov.P[1] * ret[1].pred.den < ret[1].pred.P[1] * ekf.cov.den

\* C26: in every update S = H P_pred H^T + R_meas is at least R_meas and
\* R_meas is positive, so S > 0; no update changes R_meas.
C26_InnovationCovPositive ==
    /\ ekf.R_noise > 0
    /\ (Returned(1) /\ "pred" \in DOMAIN ret[1]) =>
          /\ ret[1].S >= ekf.R_noise * ret[1].pred.den
          /\ ret[1].S > 0
          /\ ekf.R_noise = ret[1].before.R_noise

\* an update of a filter whose covariance is the zero matrix, with slope 0:
\* S is the process noise of v_rc plus R_meas
C26_Witness ==
    /\ Returned(1) /\ "pred" \in DOMAIN ret[1]
    /\ ret[1].before.cov.P = << 0, 0, 0, 0 >> /\ ret[1].call.h = 0
    /\ ret[1].S = (ret[1].before.Q_noise[2] + ekf.R_noise) * ret[1].pred.den

\* C24: tau1 of an EKF instance is at least 1 s from construction onward,
\* whatever R1 and C1 are.
C24_TauFloor == ekf # None => ekf.tau1 >= 10000

\* C27: every update reads the ECM values from the provider anew: after
\* line 108 the filter holds the provider's R0, R1 and C1 of that moment and
\* tau1 = max(R1 * C1, 1), whatever it held before, and the R0 returned is
\* the provider's.
C27_FreshEcm ==
    (ekf # None /\ Returned(1)) =>
        /\ ret[1].before.R0 = ret[1].ecm.R0
        /\ ret[1].before.R1 = ret[1].ecm.R1
        /\ ret[1].before.C1 = ret[1].ecm.C1
        /\ ret[1].before.tau1 = Max(ret[1].ecm.R1 * ret[1].ecm.C1, 10000)
        /\ ret[1].result.R0 = ret[1].ecm.R0
        /\ ekf.R0 = ret[1].ecm.R0 /\ ekf.R1 = ret[1].ecm.R1
        /\ ekf.C1 = ret[1].ecm.C1 /\ ekf.tau1 = ret[1].before.tau1

\* the provider's values changed between the filter's construction and an
\* update
C27_Witness ==
    /\ ekf # None /\ Returned(1)
    /\ ret[1].prior.R0 # ret[1].ecm.R0 /\ ret[1].prior.R1 # ret[1].ecm.R1
    /\ ret[1].result.R0 = ret[1].ecm.R0

\* C28: the first update, and no other, finds the filter not initialised
\* and starts from soc = soc_from_ocv(v_measured, temp), v_rc = 0 and
\* P = diag(0.005, 0.001); every later update starts from the state and
\* covariance the update before it left.
C28_BootstrapOnce ==
    /\ (ekf # None /\ ~Returned(1)) =>
          /\ ~ekf.initialized /\ started = 0
          /\ ekf.x = << 9000, 0 >> /\ ekf.P = << 100000, 0, 0, 10000 >>
    /\ (ekf # None /\ Returned(1)) =>
          /\ ekf.initialized /\ ret[1].before.initialized
          /\ ret[1].prior.initialized <=> started > 1
          /\ ~ret[1].prior.initialized =>
                /\ ret[1].before.x
                     = << SocFromOcv(Table, ret[1].call.voltage_v,
                                     ret[1].call.temperature_c), 0 >>
                /\ ret[1].before.P = << 50000, 0, 0, 10000 >>
          /\ ret[1].prior.initialized =>
                /\ ret[1].before.x = ret[1].prior.x
                /\ ret[1].before.P = ret[1].prior.P

\* a third update at a voltage whose OCV inversion is far from the state
\* the filter carries into it
C28_Witness ==
    /\ ekf # None /\ Returned(1) /\ started = 3
    /\ ret[1].prior.initialized
    /\ ret[1].before.x = ret[1].prior.x
    /\ Abs(SocFromOcv(Table, ret[1].call.voltage_v,
                       ret[1].call.temperature_c) - ret[1].prior.x[1]) > 1000

\* C29: an update in which soc rose by more than 0.001 with a positive
\* accumulator adds accumulated_Ah / nominal_capacity_Ah to full_cycles and
\* resets the accumulator; an update in which soc fell by more than 0.001
\* adds |current| * dt / 3600 of that step to the accumulator and leaves
\* full_cycles alone (dt is the time since the previous update, at most
\* 10 s).
C29_FlushOnReversal ==
    (Returned(1) /\ ret[1].before.has_last_soc) =>
        LET b == ret[1].before
            r == ret[1].call
            dt == Min(soh.last_update_time - b.last_update_time, 10)
        IN  /\ (r.soc - b.last_soc > 10 /\ b.charge_accumulated_mas > 0) =>
                  /\ soh.full_cycles
                       = b.full_cycles
                         + RoundDiv(b.charge_accumulated_mas * 10,
                                    36 * CellCapacityAh)
                  /\ soh.charge_accumulated_mas = 0
            /\ r.soc - b.last_soc < -10 =>
                  /\ soh.charge_accumulated_mas
                       = b.charge_accumulated_mas + Abs(r.current_ma) * dt
                  /\ soh.full_cycles = b.full_cycles

\* a discharge of 50 A counted over two updates, 10 s and 2 s, has been
\* flushed by a rise of soc: 600000 mA s are 83333e-6 cycles of 2 Ah
C29_Witness ==
    /\ Returned(1) /\ ret[1].before.has_last_soc
    /\ ret[1].call.soc - ret[1].before.last_soc > 10
    /\ ret[1].before.charge_accumulated_mas = 600000
    /\ soh.full_cycles = 83333 /\ soh.charge_accumulated_mas = 0

\* C30: an update in which soc differs from the previous soc by at most
\* 0.001, and the first update, change neither full_cycles nor the
\* accumulator.
C30_JitterRejected ==
    (Returned(1) /\ (~ret[1].before.has_last_soc
                      \/ Abs(ret[1].call.soc - ret[1].before.last_soc) <= 10)) =>
        /\ soh.full_cycles = ret[1].before.full_cycles
        /\ soh.charge_accumulated_mas = ret[1].before.charge_accumulated_mas

\* soc rose by exactly 0.001 while the accumulator held a discharge, and
\* the discharge is still in the accumulator
C30_Witness ==
    /\ Returned(1) /\ ret[1].before.has_last_soc
    /\ ret[1].call.soc - ret[1].before.last_soc = 10
    /\ ret[1].before.charge_accumulated_mas > 0
    /\ soh.charge_accumulated_mas = ret[1].before.charge_accumulated_mas
    /\ soh.full_cycles = ret[1].before.full_cycles

\* C31: an update with r0_measured <= 0.01 Ohm leaves r0_ema unchanged; with
\* r0_measured > 0.01 Ohm the new r0_ema is 0.95 old + 0.05 r0_measured,
\* which lies between the old r0_ema and the reading, so r0_ema stays
\* between the smallest and the largest of the fresh-cell R0 and the
\* accepted readings.
C31_EmaSmoothing ==
    Returned(1) =>
        LET b == ret[1].before
            r == ret[1].call.r0_measured * 100
            accepted == { m * 100 : m \in { q.r0_measured : q \in readings }
                                                 \ 0 .. 100 }
                            \union { soh.R0_new }
        IN  /\ r <= 10000 => soh.r0_ema = b.r0_ema
            /\ r > 10000 =>
                  /\ soh.r0_ema = RoundDiv(95 * b.r0_ema + 5 * r, 100)
                  /\ soh.r0_ema >= Min(b.r0_ema, r)
                  /\ soh.r0_ema <= Max(b.r0_ema, r)
            /\ \E lo \in accepted : lo <= soh.r0_ema
            /\ \E hi \in accepted : soh.r0_ema <= hi
            /\ ret[1].result.r0_ema = RoundDiv(soh.r0_ema, 10)

\* a reading of 1 Ohm has raised r0_ema above the fresh-cell value, a
\* reading at the fresh-cell value has pulled it down again, and a reading
\* of 0.005 Ohm is then ignored
C31_Witness ==
    /\ Returned(1) /\ started >= 3
    /\ ret[1].call.r0_measured = 50
    /\ ret[1].before.r0_ema > soh.R0_new
    /\ Len(soh.r0_history) >= 3
    /\ soh.r0_history[Len(soh.r0_history) - 1]
         < soh.r0_history[Len(soh.r0_history) - 2]
    /\ soh.r0_ema = ret[1].before.r0_ema

\* C32: in every SOH update result rul_cycles is
\* max(soh_combined - soh_eol, 0) / 0.04, never negative and 0 when
\* soh_combined <= soh_eol; rul_days is never negative and at most 3650,
\* also with full_cycles = 0 and with no time elapsed since construction.
C32_RulBounded ==
    SohReturned =>
        /\ ret[1].result.rul_cycles
              = RoundDiv(Max(soh.soh_combined - 8000, 0) * 100, 40)
        /\ ret[1].result.rul_cycles >= 0
        /\ soh.soh_combined <= 8000 => ret[1].result.rul_cycles = 0
        /\ ret[1].result.rul_days >= 0
        /\ ret[1].result.rul_days <= 36500
        /\ (soh.full_cycles = 0 /\ ret[1].result.rul_cycles > 0) =>
              ret[1].result.rul_days = 36500

\* the first update of an aged cell, made at the time of construction with
\* a reading of 1 Ohm: soh_combined is below soh_eol and both estimates
\* are 0
C32_Witness ==
    /\ SohReturned /\ started = 1
    /\ soh.last_update_time = soh.start_time
    /\ soh.soh_combined < 8000
    /\ ret[1].result.rul_cycles = 0 /\ ret[1].result.rul_days = 0

\* C33: the current buffer holds at most 60 samples and the SOH and
\* resistance histories at most 200 values each; after n appends a buffer
\* holds the most recent min(n, capacity) values in arrival order: the
\* current buffer the samples of the last calls, and each history, after an
\* update, what it held before without its oldest value when it was full,
\* followed by the update's value.
C33_BuffersBounded ==
    /\ [](LET m == Min(started, 60)
          IN  /\ Len(current_buffer) = m
              /\ \A i \in 1 .. m :
                    current_buffer[i] = 1000 + (started - m + i) - 1)
    /\ [](soh # None =>
            LET n == IF pc[1] \in AfterSoh \/ pc[1] = "idle"
                     THEN started ELSE started - 1
            IN  /\ Len(soh.soh_history) = Min(n, 200)
                /\ Len(soh.r0_history) = Min(n, 200))
    /\ [][(soh # None /\ soh' # soh) =>
            LET kept(q) == IF Len(q) = 200 THEN Tail(q) ELSE q
            IN  /\ soh'.soh_history
                     = kept(soh.soh_history) \o << soh'.soh_combined >>
                /\ soh'.r0_history
                     = kept(soh.r0_history) \o << soh'.r0_ema >>]_vars

\* the last call has returned: the current buffer holds the samples of
\* calls 143 to 202 and both histories are full, 142 samples and two
\* values of each history having been dropped
C33_Witness ==
    /\ Returned(1) /\ started = 202 /\ step_count = 202
    /\ Len(current_buffer) = 60
    /\ current_buffer[1] = 1142 /\ current_buffer[60] = 1201
    /\ Len(soh.soh_history) = 200 /\ Len(soh.r0_history) = 200

C35_EndsReady ==
    /\ [](initPc = "done" =>
            /\ is_ready
            /\ status \in { "ready", "ready (cache)", "ready (fallback)" }
            /\ status = "ready (fallback)" =>
                  (ocv_soc = FALLBACK_SOC /\ ocv_v = FALLBACK_OCV /\ error # "")
            /\ ~pybamm => status = "ready (fallback)")
    /\ [][is_ready => is_ready']_vars
    /\ [](\A t \in Threads :
            (pc[t] \in AfterLazy /\ loc[t].lazy_ready) =>
                (ekf # None /\ soh # None))
    /\ [](\A t \in Threads :
            (Returned(t) /\ ret[t].fresh) => ret[t].path = "ekf")
    /\ (WF_vars(InitStep) => <>[](initPc = "done" /\ is_ready))

\* the physics library is absent: the initialisation has ended ready with
\* the literature table and the error recorded, and a call made afterwards
\* has returned an estimate of the filter
C35_Witness ==
    /\ ~pybamm /\ initPc = "done" /\ is_ready
    /\ status = "ready (fallback)" /\ error = "pybamm not installed"
    /\ ocv_soc = FALLBACK_SOC
    /\ ekf # None /\ soh # None
    /\ Returned(1) /\ ret[1].fresh /\ ret[1].path = "ekf"

\* C36: a returned result with dfn_ready = true carries the soc of the EKF
\* and the SOH fields of the SOH estimator, never the fallback OCV
\* inversion with the default SOH values, whenever the provider becomes
\* ready.
C36_ReadyMeansEstimated ==
    \A t \in Threads :
        (Returned(t) /\ ret[t].result.dfn_ready) =>
            ret[t].path = "ekf"

\* C37: dfn_voltage and dfn_soc of one returned result come from the same
\* completed high-fidelity check, or are both the initial values, however
\* the call interleaves with the DFN-bg threads.
C37_ConsistentPair ==
    \A t \in Threads :
        Returned(t) =>
            << ret[t].result.dfn_voltage, ret[t].result.dfn_soc >>
                \in SimResults \union { << 0, 5000 >> }

====
